---- MODULE Spec2Model ----
(***************************************************************************)
(* Geospatial point visualisation and selection engine (voila frontend).   *)
(*                                                                         *)
(* The specifications below share one set of variables:                    *)
(*   Spec        the selection pipeline: entity snapshots, the point       *)
(*               buffer, the selection queries sent through the spatial    *)
(*               worker, and the selection slice of the store;             *)
(*   SpecHist    the selection-history reducers alone, driven far enough   *)
(*               to fill the history to its capacity;                      *)
(*   SpecHook    the selection history driven through useSelectionHistory; *)
(*   SpecSlice   the selection slice's own actions dispatched directly;    *)
(*   SpecMap     the camera and viewport reducers of the map slice;        *)
(*   SpecSocket  the websocket middleware;                                 *)
(*   SpecCache   the service worker's handling of API requests, of sync    *)
(*               events and of client messages, call by call;              *)
(*   SpecRealtime the realtime slice's reducers, driven far enough to fill *)
(*               the alerts list, and the socket's message handler;        *)
(*   SpecBuf     the point buffer under a snapshot larger than MAX_POINTS, *)
(*               with hover and selection changes;                         *)
(*   SpecCam     the orthographic camera: handlePan and handleZoom, before *)
(*               and between the rendered frames;                          *)
(*   SpecGesture the mouse gestures of MapRenderer and the queries they    *)
(*               make;                                                     *)
(*   SpecWheel   wheel events, from before the first frame on, and the     *)
(*               gestures after them;                                      *)
(*   SpecShown   polygon and lasso gestures on a map that shows a          *)
(*               selection;                                                *)
(*   SpecTouch   gesture starts by mouse and by touch;                      *)
(*   SpecGeom    the containment tests of the spatial worker as pure       *)
(*               functions over bounded inputs;                            *)
(*   SpecRing    selectInPolygon on doubles, one ring written in every     *)
(*               rotation and in both orders;                              *)
(*   SpecColors  assignStateColors and getStateColor;                      *)
(*   SpecWorker  the worker object called several times in a row;          *)
(*   SpecManager the spatial worker manager called directly.               *)
(***************************************************************************)
EXTENDS Integers, Sequences, FiniteSets, TLC

VARIABLES
    \* ---- store: companies slice / selection slice
    companies,          \* entities in Object.values order
    hoveredId,          \* companies.hoveredId
    selectedCompanies,  \* selection.selectedCompanies (a Set)
    selectionStats,     \* selection.selectionStats
    selectionHistory,   \* selection.selectionHistory, newest first
    isSelecting,        \* selection.isSelecting
    now,                \* Date.now()
    \* ---- useThreeScene: point buffer (stateRefs)
    sceneReady,
    projectedCoords,
    indexToTicker,
    tickerToIndex,
    pointColors,
    pointCount,
    \* ---- spatial worker manager, worker and mutations
    spatialAPI,         \* TRUE when the Comlink proxy exists
    mutations,          \* one record per performSpatialSelection.mutate call
    workerInbox,        \* request ids posted to the worker, FIFO
    workerOutbox,       \* response ids posted back to the main thread, FIFO
    \* ---- camera (useThreeScene cameraRef)
    camera,
    \* ---- spatial worker called as a pure function
    geomCall,
    \* ---- map slice of the store
    selectionMode,      \* map.selectionMode
    selectionGeometry,  \* map.selectionGeometry
    mapView,            \* map.camera and map.viewport
    \* ---- realtime slice of the store
    realtime,           \* connected, latency, alerts, subscriptions
    \* ---- websocket middleware (module variables and timers)
    socket,             \* the WebSocket objects made so far with their
                        \* readyState, ws (0 for null, or the place of
                        \* the object it holds), reconnectAttempts and
                        \* the reconnect timers pending
    \* ---- service worker
    swCache,            \* requests held by the runtime cache
    \* ---- MapRenderer: pointer gestures
    gesture,            \* the listener effect's closure: the selectionMode
                        \* it captured and its locals isSelecting,
                        \* selectionStart, selectionPoints, lastTouchPos,
                        \* lastTouchDistance, touchStartTime
    isDragging,         \* isDraggingRef.current
    mousePos,           \* useState mousePos
    lastHoveredIndex,   \* stateRefs.lastHoveredIndex
    \* ---- stateColors module
    stateColorMap,      \* the module's stateColorMap
    colorQuery,         \* last getStateColor call and what it returned
    colorPrev,          \* the list last handed to assignStateColors
    \* ---- spatial worker called several times in a row
    workerCalls,        \* calls made on the worker object, with results
    \* ---- spatial worker manager called directly
    managerCalls,       \* calls made on the manager, with their outcomes
    \* ---- observation of the run (not program state)
    gesturePrev,        \* what the last pointer handler saw
    bufPrev,            \* what the last rebuild of the point buffer read
    bufOps,             \* 0, or 1 + handlers run since a large snapshot
    histPrev,           \* what the last call of useSelectionHistory found
    mapPrev,            \* which map reducer ran last on the camera
    socketPrev,         \* what the last websocket event found and did
    realtimePrev,       \* which realtime action was dispatched last
    swCall,             \* the last API request and the strategy it got, or the
                        \* last response returned
    swWork,             \* the service worker's calls under way
    hoverPrev,          \* what the last pointer-move hit, and whether the
                        \* buffer has been left alone since
    lastWrite,          \* which query last wrote the selected set
    addCount,           \* addToSelectionHistory dispatches made so far
    camOps,             \* camera operations performed so far
    camPrev             \* what the last camera operation saw and asked for

vars == << companies, hoveredId, selectedCompanies, selectionStats,
           selectionHistory, isSelecting, now, sceneReady, projectedCoords,
           indexToTicker, tickerToIndex, pointColors, pointCount, spatialAPI,
           mutations, workerInbox, workerOutbox, camera, geomCall,
           lastWrite, addCount, camOps, camPrev, selectionMode,
           selectionGeometry, gesture, isDragging, mousePos,
           lastHoveredIndex, stateColorMap, colorQuery, colorPrev,
           workerCalls,
           managerCalls,
           gesturePrev, bufPrev, bufOps, histPrev, mapView, mapPrev,
           hoverPrev, socket, socketPrev, realtime, realtimePrev, swCache,
           swCall, swWork >>

storeVars  == << companies, hoveredId, selectedCompanies, selectionStats,
                 selectionHistory, isSelecting, now >>
bufferVars == << sceneReady, projectedCoords, indexToTicker, tickerToIndex,
                 pointColors, pointCount, lastHoveredIndex >>
workerVars == << spatialAPI, mutations, workerInbox, workerOutbox >>
camVars    == << camera, camOps, camPrev >>
callVars   == << geomCall, workerCalls, managerCalls >>
mapVars    == << selectionMode, selectionGeometry >>
gestureVars == << gesture, isDragging, mousePos, gesturePrev >>
colorVars  == << stateColorMap, colorQuery, colorPrev >>
runVars    == << bufPrev, bufOps, histPrev, hoverPrev >>
viewVars   == << mapView, mapPrev >>
netVars    == << socket, socketPrev, realtime, realtimePrev, swCache, swCall,
                 swWork >>

NULL == "null"
\* map.selectionGeometry when it is null
NoGeometry == [ type |-> NULL ]

\* selection.selectionStats when it is null
NoStats == [ type |-> NULL ]

----------------------------------------------------------------------------
(* Bounds of the model.                                                    *)

MaxQueries == 2          \* selection queries dispatched in one run of Spec
MaxClock == 1            \* values Date.now() takes: 0..MaxClock
HistPrefill == 48        \* dispatches number MaxFreshAdds+1..HistPrefill of
                         \* addToSelectionHistory run back to back
MaxFreshAdds == 3        \* dispatches interleaved with the other reducers,
                         \* at the start and again after HistPrefill
MaxCamOps == 2           \* calls of handlePan and handleZoom in one run of
                         \* SpecCam
GeomMaxCoord == 2        \* SpecGeom coordinates range over 0..GeomMaxCoord
GeomMaxPoints == 2       \* longest point list handed to the worker in SpecGeom
MaxWorkerCalls == 3      \* calls made on the worker object in SpecWorker
MaxManagerCalls == 2     \* calls made on the manager in SpecManager
MaxLargeOps == 1         \* handlers run after a large snapshot in SpecBuf
LargeExtra == 15         \* entities of the large snapshot beyond MAX_POINTS
HitSlots == 2            \* leading buffer slots tried by hits and results
MaxRotation == 6        \* rotations of the region list tried in SpecColors
MaxPointerEvents == 3    \* pointer events handled in one run of SpecGesture
                         \* or of SpecWheel
MaxTouchEvents == 2      \* of which touch events, in one run of SpecTouch
MaxWheelEvents == 1      \* of which wheel events, in one run of SpecWheel
PageLoadTime == 200      \* Date.now() in SpecTouch
MaxHookCalls == 3        \* calls of useSelectionHistory's functions in SpecHook
MaxSwEvents == 3         \* events handled by the service worker in SpecCache
MaxSockets == 3          \* WebSocket objects created in one run of SpecSocket
MaxSocketEvents == 8     \* handlers of the middleware run in SpecSocket
MaxMapOps == 3           \* reducers of the map slice run in one run of SpecMap
AlertPrefill == 100      \* dispatches number MaxFreshOps+1..AlertPrefill of
                         \* SpecRealtime are addAlert, run back to back
MaxFreshOps == 2         \* dispatches interleaved with the clock in
                         \* SpecRealtime, at the start and after AlertPrefill

----------------------------------------------------------------------------
(* Generic helpers.                                                        *)

Range(s) == { s[i] : i \in 1..Len(s) }

Abs(a) == IF a < 0 THEN -a ELSE a

----------------------------------------------------------------------------
(* Arithmetic.                                                             *)
(*                                                                         *)
(* The numbers of the map slice are computed with as exact rationals       *)
(* << n, d >> in lowest terms with d > 0.  The numbers of the camera, of   *)
(* the gestures and of the worker's queries are doubles; their arithmetic  *)
(* needs whole numbers beyond the range of the model checker's 32-bit      *)
(* integers, which are written as sequences of base-8192 digits (13 bits   *)
(* each), least significant first.                                         *)

RECURSIVE GCD(_, _)
GCD(a, b) == IF b = 0 THEN a ELSE GCD(b, a % b)

Rat(n, d) ==
    LET g == GCD(Abs(n), Abs(d))
        sg == IF d < 0 THEN -1 ELSE 1
    IN  << sg * (n \div g), sg * (d \div g) >>

RInt(n) == << n, 1 >>
RAdd(a, b) ==
    LET g == GCD(a[2], b[2])
    IN  Rat(a[1] * (b[2] \div g) + b[1] * (a[2] \div g), (a[2] \div g) * b[2])
RNeg(a) == << -a[1], a[2] >>
RSub(a, b) == RAdd(a, RNeg(b))
RMul(a, b) ==
    LET g1 == GCD(Abs(a[1]), b[2])
        g2 == GCD(Abs(b[1]), a[2])
    IN  Rat((a[1] \div g1) * (b[1] \div g2), (a[2] \div g2) * (b[2] \div g1))
RInv(a) == IF a[1] < 0 THEN << -a[2], -a[1] >> ELSE << a[2], a[1] >>
RDiv(a, b) == RMul(a, RInv(b))
RLt(a, b) ==
    LET g == GCD(a[2], b[2])
    IN  a[1] * (b[2] \div g) < b[1] * (a[2] \div g)

BigBase == 8192

RECURSIVE BigOf(_)
BigOf(n) == IF n = 0 THEN << >> ELSE << n % BigBase >> \o BigOf(n \div BigBase)

RECURSIVE StripLoop(_, _)
\* the first i limbs of a without their leading zero limbs
StripLoop(a, i) ==
    IF i = 0 THEN << >>
    ELSE IF a[i] # 0 THEN SubSeq(a, 1, i)
    ELSE StripLoop(a, i - 1)

\* a without its leading zero limbs
BigStrip(a) == CHOOSE r \in { StripLoop(x, Len(x)) : x \in { a } } : TRUE

\* Limb i of a, 0 beyond its length.
BigLimb(a, i) == IF i >= 1 /\ i <= Len(a) THEN a[i] ELSE 0

RECURSIVE BigAddLoop(_, _, _, _, _)
BigAddLoop(a, b, i, carry, sum) ==
    IF i > Len(a) /\ i > Len(b)
    THEN (IF carry = 0 THEN sum ELSE Append(sum, carry))
    ELSE CHOOSE r \in
           { BigAddLoop(a, b, j, t \div BigBase, Append(sum, t % BigBase)) :
               t \in { BigLimb(a, i) + BigLimb(b, i) + carry },
               j \in { i + 1 } } : TRUE

BigAddC(a, b, carry) ==
    CHOOSE r \in { BigAddLoop(x, y, 1, carry, << >>) : x \in { a }, y \in { b } } :
        TRUE

BigAdd(a, b) == BigAddC(a, b, 0)

RECURSIVE CmpLoop(_, _, _)
\* -1, 0 or 1 as the first i limbs of a are less than, equal to or more
\* than those of b
CmpLoop(a, b, i) ==
    IF i = 0 THEN 0
    ELSE IF a[i] # b[i] THEN (IF a[i] < b[i] THEN -1 ELSE 1)
    ELSE CmpLoop(a, b, i - 1)

\* -1, 0 or 1 as a < b, a = b or a > b
BigCmp(a, b) ==
    CHOOSE r \in
      { IF Len(x) # Len(y) THEN (IF Len(x) < Len(y) THEN -1 ELSE 1)
        ELSE CmpLoop(x, y, Len(x))
        : x \in { a }, y \in { b } } : TRUE

RECURSIVE BigSubLoop(_, _, _, _, _)
BigSubLoop(a, b, i, borrow, diff) ==
    IF i > Len(a) THEN diff
    ELSE CHOOSE r \in
           { BigSubLoop(a, b, j, IF t < 0 THEN 1 ELSE 0,
                        Append(diff, IF t < 0 THEN t + BigBase ELSE t)) :
               t \in { a[i] - BigLimb(b, i) - borrow },
               j \in { i + 1 } } : TRUE

\* a - b for a >= b
BigSubB(a, b, borrow) ==
    CHOOSE r \in { BigSubLoop(x, y, 1, borrow, << >>) : x \in { a }, y \in { b } } :
        TRUE

BigSub(a, b) == BigStrip(BigSubB(a, b, 0))

RECURSIVE CarryLoop(_, _, _, _)
\* the limbs of the number whose limb i, before the carries, is c[i]
CarryLoop(c, i, carry, limbs) ==
    IF i > Len(c) THEN limbs \o BigOf(carry)
    ELSE CHOOSE r \in
           { CarryLoop(c, j, t \div BigBase, Append(limbs, t % BigBase)) :
               t \in { c[i] + carry }, j \in { i + 1 } } : TRUE

\* a * m + carry for a whole number m below BigBase
BigMulDigit(a, m, carry) ==
    CHOOSE r \in
      { CarryLoop(c, 1, carry, << >>) :
          c \in { [ i \in 1..Len(x) |-> x[i] * m ] : x \in { a } } } : TRUE

\* what the limbs a[i] and b[k + 1 - i] of a, of five limbs or fewer,
\* and b add to limb k of their product
MulColumn(a, b, k) ==
    BigLimb(a, 1) * BigLimb(b, k) + BigLimb(a, 2) * BigLimb(b, k - 1)
      + BigLimb(a, 3) * BigLimb(b, k - 2) + BigLimb(a, 4) * BigLimb(b, k - 3)
      + BigLimb(a, 5) * BigLimb(b, k - 4)

RECURSIVE BigMulLoop(_, _, _, _)
\* sum + (limbs i.. of a) * b * BigBase^(i - 1)
BigMulLoop(a, b, i, sum) ==
    IF i > Len(a) THEN sum
    ELSE CHOOSE r \in
           { BigMulLoop(a, b, j, next) :
               next \in { BigAdd(sum, [ k \in 1..(i - 1) |-> 0 ]
                                      \o BigMulDigit(b, a[i], 0)) },
               j \in { i + 1 } } : TRUE

\* a * b for a of five limbs or fewer
BigMulShort(a, b) ==
    CHOOSE r \in
      { BigStrip(CarryLoop(c, 1, 0, << >>)) :
          c \in { [ k \in 1..(Len(a) + Len(b) - 1) |-> MulColumn(a, b, k) ] } } :
        TRUE

BigMul(a, b) ==
    CHOOSE r \in
      { IF x = << >> \/ y = << >> THEN << >>
        ELSE IF Len(x) <= 5 THEN BigMulShort(x, y)
        ELSE IF Len(y) <= 5 THEN BigMulShort(y, x)
        ELSE BigStrip(BigMulLoop(x, y, 1, << >>))
        : x \in { a }, y \in { b } } : TRUE

\* 2^k
BigPow2(k) == [ i \in 1..(k \div 13) |-> 0 ] \o << 2^(k % 13) >>

\* a * 2^k
BigShl(a, k) ==
    CHOOSE r \in
      { IF x = << >> THEN << >>
        ELSE BigStrip([ i \in 1..(k \div 13) |-> 0 ]
                      \o [ i \in 1..(Len(x) + 1) |->
                             ((BigLimb(x, i) * p) % BigBase)
                               + ((BigLimb(x, i - 1) * p) \div BigBase) ]) :
          x \in { a }, p \in { 2^(k % 13) } } : TRUE

\* a \div 2^k
BigShr(a, k) ==
    CHOOSE r \in
      { BigStrip([ i \in 1..(Len(x) - s) |->
                     (x[i + s] \div p)
                       + (BigLimb(x, i + s + 1) % p) * (BigBase \div p) ]) :
          x \in { a }, s \in { k \div 13 }, p \in { 2^(k % 13) } } : TRUE

RECURSIVE BigDivSmallLoop(_, _, _, _, _)
BigDivSmallLoop(a, m, i, rem, quot) ==
    IF i = 0 THEN << BigStrip(quot), rem >>
    ELSE CHOOSE r \in
           { BigDivSmallLoop(a, m, j, t % m, << t \div m >> \o quot) :
               t \in { rem * BigBase + a[i] }, j \in { i - 1 } } : TRUE

\* << a \div m, a % m >> for a divisor m of one limb
BigDivSmall(a, m) ==
    CHOOSE r \in { BigDivSmallLoop(x, m, Len(x), 0, << >>) : x \in { a } } : TRUE

RECURSIVE BitsLoop(_)
BitsLoop(v) == IF v = 0 THEN 0 ELSE 1 + BitsLoop(v \div 2)

\* the number of binary digits of every limb
LimbBits == [ v \in 0..(BigBase - 1) |-> BitsLoop(v) ]

\* the number of binary digits of v
SmallBits(v) == LimbBits[v]

BigBits(a) ==
    CHOOSE r \in
      { IF x = << >> THEN 0 ELSE 13 * (Len(x) - 1) + SmallBits(x[Len(x)]) :
          x \in { a } } : TRUE

RECURSIVE ZerosLoop(_)
ZerosLoop(v) == IF v % 2 = 1 THEN 0 ELSE 1 + ZerosLoop(v \div 2)

\* the number of trailing zero bits of every limb but 0
LimbZeros == [ v \in 1..(BigBase - 1) |-> ZerosLoop(v) ]

\* the number of trailing zero bits of a limb v # 0
TrailingZeros(v) == LimbZeros[v]

\* the number of trailing zero bits of n # 0
BigTrailingZeros(n) ==
    CHOOSE r \in
      { 13 * (i - 1) + TrailingZeros(n[i]) :
          i \in { CHOOSE i \in 1..Len(n) :
                    n[i] # 0 /\ \A j \in 1..(i - 1) : n[j] = 0 } } : TRUE

\* d is a power of two
IsPow2(d) ==
    /\ d[Len(d)] = 2^(SmallBits(d[Len(d)]) - 1)
    /\ \A i \in 1..(Len(d) - 1) : d[i] = 0

\* k for the power of two d = 2^k
Log2(d) == 13 * (Len(d) - 1) + SmallBits(d[Len(d)]) - 1

\* signed big integers: [ neg, mag ]
SBig(n) == [ neg |-> n < 0, mag |-> BigOf(Abs(n)) ]
SMul(a, b) ==
    CHOOSE r \in
      { [ neg |-> (x.neg # y.neg) /\ x.mag # << >> /\ y.mag # << >>,
          mag |-> BigMul(x.mag, y.mag) ] : x \in { a }, y \in { b } } : TRUE
SAdd(a, b) ==
    CHOOSE r \in
      { IF x.neg = y.neg THEN [ neg |-> x.neg, mag |-> BigAdd(x.mag, y.mag) ]
        ELSE CHOOSE w \in
               { IF c >= 0
                 THEN [ neg |-> x.neg /\ c > 0, mag |-> BigSub(x.mag, y.mag) ]
                 ELSE [ neg |-> y.neg, mag |-> BigSub(y.mag, x.mag) ] :
                   c \in { BigCmp(x.mag, y.mag) } } : TRUE
        : x \in { a }, y \in { b } } : TRUE
\* a * 2^k
SShl(a, k) == [ neg |-> a.neg, mag |-> BigShl(a.mag, k) ]

\* Exact fractions [ n, d ] of a signed big integer and a positive big
\* integer.  Where the denominators are powers of two, as those of doubles
\* are, the operations shift in place of multiplying.
QInt(v) == [ n |-> SBig(v), d |-> BigOf(1) ]
QPos(d) == [ neg |-> FALSE, mag |-> d ]
QAdd(a, b) ==
    CHOOSE r \in
      { IF IsPow2(x.d) /\ IsPow2(y.d)
        THEN CHOOSE w \in
               { IF kx >= ky
                 THEN [ n |-> SAdd(x.n, SShl(y.n, kx - ky)), d |-> x.d ]
                 ELSE [ n |-> SAdd(SShl(x.n, ky - kx), y.n), d |-> y.d ] :
                   kx \in { Log2(x.d) }, ky \in { Log2(y.d) } } : TRUE
        ELSE [ n |-> SAdd(SMul(x.n, QPos(y.d)), SMul(y.n, QPos(x.d))),
               d |-> BigMul(x.d, y.d) ] : x \in { a }, y \in { b } } : TRUE
QNeg(a) ==
    CHOOSE r \in
      { [ n |-> [ neg |-> ~x.n.neg /\ x.n.mag # << >>, mag |-> x.n.mag ],
          d |-> x.d ] : x \in { a } } : TRUE
QSub(a, b) == QAdd(a, QNeg(b))
QMul(a, b) ==
    CHOOSE r \in
      { [ n |-> SMul(x.n, y.n),
          d |-> IF IsPow2(x.d) /\ IsPow2(y.d)
                THEN BigPow2(Log2(x.d) + Log2(y.d))
                ELSE BigMul(x.d, y.d) ] :
          x \in { a }, y \in { b } } : TRUE
QSign(a) ==
    CHOOSE r \in
      { IF x.n.mag = << >> THEN 0 ELSE IF x.n.neg THEN -1 ELSE 1 :
          x \in { a } } : TRUE

\* Numbers as the program computes with them: an IEEE 754 double is held as
\* the exact fraction it stands for, and every arithmetic operation gives
\* the double nearest to the exact result (ties to the even significand).
\* A finite result is a normal number or 0.  The doubles that are not
\* numbers are written as fractions with no denominator (d = << >>):
\* NaN with numerator 0, Infinity and -Infinity with numerators 1 and -1.
\* The two zeros of a double are one value here: the program divides by
\* zero only where the zero is the difference of two equal doubles, which
\* is +0, and nowhere else does it tell -0 from +0.
SignificandBits == 53

NaN == [ n |-> [ neg |-> FALSE, mag |-> << >> ], d |-> << >> ]
Infinity == [ n |-> [ neg |-> FALSE, mag |-> << 1 >> ], d |-> << >> ]
NegInfinity == [ n |-> [ neg |-> TRUE, mag |-> << 1 >> ], d |-> << >> ]

\* Number.isFinite, Number.isNaN, and x === 0
IsFinite(a) == a.d # << >>
IsNaN(a) == a.d = << >> /\ a.n.mag = << >>
IsZero(a) == a.d # << >> /\ a.n.mag = << >>

\* a < b and a <= b of doubles: false when an operand is NaN
QLess(a, b) ==
    CHOOSE r \in
      { IF x.d # << >> /\ y.d # << >> THEN QSign(QSub(x, y)) < 0
        ELSE /\ ~IsNaN(x) /\ ~IsNaN(y) /\ x # y
             /\ (x = NegInfinity \/ y = Infinity) :
          x \in { a }, y \in { b } } : TRUE
QLeq(a, b) ==
    CHOOSE r \in
      { IF x.d # << >> /\ y.d # << >> THEN QSign(QSub(x, y)) <= 0
        ELSE /\ ~IsNaN(x) /\ ~IsNaN(y)
             /\ (x = y \/ x = NegInfinity \/ y = Infinity) :
          x \in { a }, y \in { b } } : TRUE

\* n / 2^k of sign neg in lowest terms, for n # 0: two doubles are equal
\* exactly when their fractions are
Lowest(neg, n, k) ==
    CHOOSE r \in
      { CHOOSE w \in
          { [ n |-> [ neg |-> neg, mag |-> BigShr(x, IF tz < k THEN tz ELSE k) ],
              d |-> BigPow2(IF tz < k THEN k - tz ELSE 0) ] :
              tz \in { BigTrailingZeros(x) } } : TRUE
        : x \in { n } } : TRUE

\* binary digit j of n, the lowest being digit 0
BigBit(n, j) == (n[(j \div 13) + 1] \div (2^(j % 13))) % 2

\* one of the binary digits of n below digit j is 1
BigSticky(n, j) ==
    \/ \E i \in 1..(j \div 13) : n[i] # 0
    \/ (n[(j \div 13) + 1] % (2^(j % 13))) # 0

\* q, or the next whole number when what was cut off n to leave q, its
\* binary digits below digit cut, is more than half a unit of q, or is
\* half a unit and q is odd.
RoundHalfEven(q, n, cut) ==
    IF BigBit(n, cut - 1) = 1 /\ (BigSticky(n, cut - 1) \/ (q[1] % 2) = 1)
    THEN BigAdd(q, << 1 >>)
    ELSE q

\* The double of sign neg nearest to n / 2^k: n itself when it has no more
\* than 53 binary digits, and otherwise its leading 53 digits rounded by
\* what is cut off.
FlDyadic(neg, n, k) ==
    CHOOSE r \in
      { CHOOSE v \in
          { IF cut <= 0 THEN Lowest(neg, x, k)
            ELSE CHOOSE w \in
                   { IF cut >= k THEN Lowest(neg, BigShl(q, cut - k), 0)
                     ELSE Lowest(neg, q, k - cut) :
                     q \in { RoundHalfEven(q0, x, cut) :
                               q0 \in { BigShr(x, cut) } } } : TRUE
            : cut \in { BigBits(x) - SignificandBits } } : TRUE
        : x \in { n } } : TRUE

\* the digit tried first in place of the next digit of a long division:
\* the two top limbs of cur, which has one limb more than d, divided by
\* the top limb of d, taken down while the next limb of d shows it to be
\* too large
RECURSIVE DigitTried(_, _, _, _)
DigitTried(qhat, rhat, cur, d) ==
    IF qhat >= BigBase
         \/ (rhat < BigBase
               /\ qhat * BigLimb(d, Len(d) - 1)
                    > rhat * BigBase + BigLimb(cur, Len(d) - 1))
    THEN CHOOSE r \in
           { DigitTried(q, rh, cur, d) :
               q \in { qhat - 1 }, rh \in { rhat + d[Len(d)] } } : TRUE
    ELSE qhat

RECURSIVE MulSubLoop(_, _, _, _, _, _)
\* << cur - q * d, borrow >>, limb by limb; a borrow left at the end says
\* that q * d is more than cur
MulSubLoop(cur, d, q, i, borrow, diff) ==
    IF i > Len(cur) THEN << diff, borrow >>
    ELSE CHOOSE r \in
           { IF cur[i] >= (u % BigBase)
             THEN MulSubLoop(cur, d, q, j, u \div BigBase,
                             Append(diff, cur[i] - (u % BigBase)))
             ELSE MulSubLoop(cur, d, q, j, (u \div BigBase) + 1,
                             Append(diff, cur[i] + BigBase - (u % BigBase))) :
               u \in { q * BigLimb(d, i) + borrow }, j \in { i + 1 } } : TRUE

RECURSIVE DigitFit(_, _, _)
\* << q, cur - q * d >> for the largest digit q <= qhat with d * q <= cur,
\* the difference on as many limbs as d has
DigitFit(cur, d, qhat) ==
    CHOOSE r \in
      { IF t[2] = 0 THEN << qhat, SubSeq(t[1], 1, Len(d)) >>
        ELSE CHOOSE w \in { DigitFit(cur, d, q) : q \in { qhat - 1 } } : TRUE :
          t \in { MulSubLoop(cur, d, qhat, 1, 0, << >>) } } : TRUE

\* The next digit of a long division by d, whose top limb is 4096 or
\* more, and what the division leaves: the digit tried first is the digit
\* or up to 2 more.
DivDigit(cur, d) ==
    CHOOSE r \in
      { CHOOSE w \in
          { DigitFit(c, d,
                     DigitTried(top \div d[Len(d)], top % d[Len(d)], c, d)) :
              top \in { c[Len(d) + 1] * BigBase + c[Len(d)] } } : TRUE
        : c \in { cur } } : TRUE

RECURSIVE BigDivLoop(_, _, _, _, _)
\* rem is held on as many limbs as d has
BigDivLoop(n, d, i, rem, quot) ==
    IF i = 0 THEN << BigStrip(quot), BigStrip(rem) >>
    ELSE CHOOSE r \in
           { BigDivLoop(n, d, j, s[2], << s[1] >> \o quot) :
               s \in { DivDigit(<< n[i] >> \o rem, d) }, j \in { i - 1 } } : TRUE

\* << n \div d, n % d >> for d # 0
BigDivMod(n, d) ==
    CHOOSE r \in
      { CHOOSE w \in
          { << qr[1], BigShr(qr[2], j) >> :
              qr \in { IF Len(x) < Len(y) THEN << << >>, x >>
                       ELSE BigDivLoop(x, y, Len(x) - Len(y) + 1,
                                       SubSeq(x, Len(x) - Len(y) + 2, Len(x))
                                         \o << 0 >>, << >>) :
                         x \in { BigShl(n, j) }, y \in { BigShl(d, j) } } } : TRUE
        : j \in { 13 - SmallBits(d[Len(d)]) } } : TRUE

\* The double of sign neg nearest to n / d.  The quotient is taken to 55
\* binary digits or more; when the division leaves a remainder, half a unit
\* is added, which rounds like the fraction itself.
FlQuotient(neg, n, d) ==
    CHOOSE r \in
      { CHOOSE w \in
          { IF t >= 0
            THEN (IF qr[2] = << >> THEN FlDyadic(neg, qr[1], t)
                  ELSE FlDyadic(neg, BigAdd(BigAdd(qr[1], qr[1]), << 1 >>),
                                t + 1))
            ELSE (IF qr[2] = << >> THEN FlDyadic(neg, BigShl(qr[1], -t), 0)
                  ELSE FlDyadic(neg,
                           BigShl(BigAdd(BigAdd(qr[1], qr[1]), << 1 >>),
                                  -t - 1), 0))
            : qr \in { IF t >= 0 THEN BigDivMod(BigShl(n, t), d)
                       ELSE BigDivMod(n, BigShl(d, -t)) } } : TRUE
        : t \in { 56 + BigBits(d) - BigBits(n) } } : TRUE

\* The double nearest to the fraction a.
Fl(a) ==
    CHOOSE r \in
        { IF v.n.mag = << >> THEN QInt(0)
          ELSE IF IsPow2(v.d)
          THEN FlDyadic(v.n.neg, v.n.mag, Log2(v.d))
          ELSE IF Len(v.d) = 1 /\ BigDivSmall(v.n.mag, v.d[1])[2] = 0
          THEN FlDyadic(v.n.neg, BigDivSmall(v.n.mag, v.d[1])[1], 0)
          ELSE FlQuotient(v.n.neg, v.n.mag, v.d)
          : v \in { a } } : TRUE

QDiv(a, b) ==
    CHOOSE r \in
      { IF IsPow2(x.d) /\ IsPow2(y.d)
        THEN CHOOSE w \in
               { [ n |-> [ neg |-> (x.n.neg # y.n.neg) /\ x.n.mag # << >>,
                           mag |-> IF ky > kx THEN BigShl(x.n.mag, ky - kx)
                                   ELSE x.n.mag ],
                   d |-> IF kx > ky THEN BigShl(y.n.mag, kx - ky)
                         ELSE y.n.mag ] :
                   kx \in { Log2(x.d) }, ky \in { Log2(y.d) } } : TRUE
        ELSE [ n |-> [ neg |-> (x.n.neg # y.n.neg) /\ x.n.mag # << >>,
                       mag |-> BigMul(x.n.mag, y.d) ],
               d |-> BigMul(x.d, y.n.mag) ] : x \in { a }, y \in { b } } : TRUE

\* u + v where u or v is not finite: NaN for a NaN operand and for
\* Infinity + -Infinity
AddNotFinite(u, v) ==
    IF IsNaN(u) \/ IsNaN(v) THEN NaN
    ELSE IF IsFinite(u) THEN v
    ELSE IF IsFinite(v) \/ u = v THEN u
    ELSE NaN

\* u * v where u or v is not finite: NaN for a NaN operand and for
\* 0 * Infinity
MulNotFinite(u, v) ==
    IF IsNaN(u) \/ IsNaN(v) \/ IsZero(u) \/ IsZero(v) THEN NaN
    ELSE IF u.n.neg # v.n.neg THEN NegInfinity
    ELSE Infinity

\* u / v where u or v is not finite or v is 0: NaN for a NaN operand, for
\* 0 / 0 and for Infinity / Infinity
DivNotFinite(u, v) ==
    IF IsNaN(u) \/ IsNaN(v) THEN NaN
    ELSE IF IsFinite(u) /\ ~IsFinite(v) THEN QInt(0)
    ELSE IF IsZero(u) \/ (~IsFinite(u) /\ ~IsFinite(v)) THEN NaN
    ELSE IF u.n.neg # v.n.neg THEN NegInfinity
    ELSE Infinity

\* The four operations on doubles (the operands are evaluated once).
FlAdd(a, b) ==
    CHOOSE r \in
      { IF u.d # << >> /\ v.d # << >> THEN Fl(QAdd(u, v))
        ELSE AddNotFinite(u, v) : u \in { a }, v \in { b } } : TRUE
FlSub(a, b) ==
    CHOOSE r \in
      { IF u.d # << >> /\ v.d # << >> THEN Fl(QSub(u, v))
        ELSE AddNotFinite(u, QNeg(v)) : u \in { a }, v \in { b } } : TRUE
FlMul(a, b) ==
    CHOOSE r \in
      { IF u.d # << >> /\ v.d # << >> THEN Fl(QMul(u, v))
        ELSE MulNotFinite(u, v) : u \in { a }, v \in { b } } : TRUE
FlDiv(a, b) ==
    CHOOSE r \in
      { IF u.d # << >> /\ v.d # << >> /\ v.n.mag # << >> THEN Fl(QDiv(u, v))
        ELSE DivNotFinite(u, v) : u \in { a }, v \in { b } } : TRUE

RECURSIVE IntRootLoop(_, _)
\* Newton's iteration downwards from a whole number x above the root of v
IntRootLoop(v, x) ==
    CHOOSE r \in
      { IF y >= x THEN x ELSE IntRootLoop(v, y) :
          y \in { (x + v \div x) \div 2 } } : TRUE

RECURSIVE RootLoop(_, _)
\* the same on whole numbers of any length
RootLoop(n, x) ==
    CHOOSE r \in
      { IF BigCmp(y, x) >= 0 THEN x ELSE RootLoop(n, y) :
          y \in { BigShr(BigAdd(x, BigDivMod(n, x)[1]), 1) } } : TRUE

\* the largest whole number whose square is at most n: the iteration
\* starts above the root of the leading 29 or 30 binary digits of n
BigRoot(n) ==
    CHOOSE r \in
      { CHOOSE v \in
          { CHOOSE w \in
              { RootLoop(x, BigShl(BigOf(IntRootLoop(h + 1, 32768) + 1),
                                   e \div 2)) :
                  h \in { BigLimb(top, 1) + BigBase * BigLimb(top, 2)
                            + BigBase * BigBase * BigLimb(top, 3) :
                            top \in { BigShr(x, e) } } } : TRUE
            : e \in { IF BigBits(x) < 30 THEN 0
                      ELSE 2 * ((BigBits(x) - 29) \div 2) } } : TRUE
        : x \in { n } } : TRUE

\* Math.sqrt of a double: the double nearest to the square root, NaN for
\* NaN and for a number below 0, Infinity for Infinity.
\* The root of a * 4^m is taken to 55 binary digits or more; when it is not
\* a whole number, half a unit is added, which rounds like the root itself.
FlSqrt(a) ==
    CHOOSE q \in
      { IF v.n.mag = << >> THEN (IF v.d = << >> THEN NaN ELSE QInt(0))
        ELSE IF v.n.neg THEN NaN
        ELSE IF v.d = << >> THEN v
        ELSE CHOOSE r \in
          { CHOOSE w \in
              { CHOOSE u \in
                  { IF BigMul(s, s) = BigShl(nd, 2 * m)
                    THEN Fl([ n |-> [ neg |-> FALSE, mag |-> s ],
                              d |-> BigShl(v.d, m) ])
                    ELSE Fl([ n |-> [ neg |-> FALSE,
                                      mag |-> BigAdd(BigAdd(s, s), << 1 >>) ],
                              d |-> BigShl(v.d, m + 1) ])
                    : s \in { BigRoot(BigShl(nd, 2 * m)) } } : TRUE
                : m \in { IF BigBits(nd) >= 109 THEN 0
                          ELSE (110 - BigBits(nd)) \div 2 } } : TRUE
            : nd \in { BigMul(v.n.mag, v.d) } } : TRUE
        : v \in { a } } : TRUE

----------------------------------------------------------------------------
(* Spatial worker: SpatialOperations (workers/spatialWorker.ts).           *)
(* A point is [ticker, x, y, z]; a 2-D point is [x, y].  The ground plane  *)
(* is x/z, so a query's y axis is compared with a point's z.               *)

\* variant of the rectangle test with an exclusive upper x bound
InRectangleExclusive(company, min, max) ==
    /\ company.x >= min.x /\ company.x < max.x
    /\ company.z >= min.y /\ company.z <= max.y

\* the test of the if in selectInRectangle
InRectangle(company, min, max) ==
    /\ company.x >= min.x /\ company.x <= max.x
    /\ company.z >= min.y /\ company.z <= max.y

RECURSIVE RectangleLoop(_, _, _, _, _)
RectangleLoop(min, max, allCoords, i, selected) ==
    IF i > Len(allCoords) THEN selected
    ELSE RectangleLoop(min, max, allCoords, i + 1,
            IF InRectangle(allCoords[i], min, max)
            THEN Append(selected, allCoords[i]) ELSE selected)

\* variant of selectInRectangle that hands the points back last first
SelectInRectangleLastFirst(min, max, allCoords) ==
    LET selected == RectangleLoop(min, max, allCoords, 1, << >>)
    IN  [ i \in 1..Len(selected) |-> selected[Len(selected) + 1 - i] ]

SelectInRectangle(min, max, allCoords) ==
    RectangleLoop(min, max, allCoords, 1, << >>)

\* variant of the circle test with a strict comparison
InCircleStrict(company, center, radiusSq) ==
    LET dx == company.x - center.x
        dz == company.z - center.y
    IN  dx * dx + dz * dz < radiusSq

\* the test of the if in selectInCircle
InCircle(company, center, radiusSq) ==
    LET dx == company.x - center.x
        dz == company.z - center.y
    IN  dx * dx + dz * dz <= radiusSq

RECURSIVE CircleLoop(_, _, _, _, _)
CircleLoop(center, radiusSq, allCoords, i, selected) ==
    IF i > Len(allCoords) THEN selected
    ELSE CircleLoop(center, radiusSq, allCoords, i + 1,
            IF InCircle(allCoords[i], center, radiusSq)
            THEN Append(selected, allCoords[i]) ELSE selected)

SelectInCircle(center, radius, allCoords) ==
    LET radiusSq == radius * radius
    IN  CircleLoop(center, radiusSq, allCoords, 1, << >>)

\* one edge (i, j) of the even-odd test.  The quotient by (yj - yi) is only
\* evaluated when the first conjunct holds, and then yi # yj; the comparison
\* x < (xj - xi) * (y - yi) / (yj - yi) + xi is made exactly by multiplying
\* through by the divisor.
EdgeIntersects(point, pi, pj) ==
    LET x == point.x   y == point.y
        xi == pi.x     yi == pi.y
        xj == pj.x     yj == pj.y
    IN  /\ (yi > y) # (yj > y)
        /\ IF yj - yi > 0
           THEN (x - xi) * (yj - yi) < (xj - xi) * (y - yi)
           ELSE (x - xi) * (yj - yi) > (xj - xi) * (y - yi)

RECURSIVE PolygonEdgeLoop(_, _, _, _, _)
PolygonEdgeLoop(point, polygon, i, j, inside) ==
    IF i > Len(polygon) THEN inside
    ELSE PolygonEdgeLoop(point, polygon, i + 1, i,
            IF EdgeIntersects(point, polygon[i], polygon[j])
            THEN ~inside ELSE inside)

IsPointInPolygon(point, polygon) ==
    PolygonEdgeLoop(point, polygon, 1, Len(polygon), FALSE)

\* Variant: both operands of the && are evaluated for every edge.
DivisorsOfPointUnguarded(point, polygon) ==
    { polygon[IF i = 1 THEN Len(polygon) ELSE i - 1].y - polygon[i].y :
        i \in 1..Len(polygon) }

\* The divisors (yj - yi) with which isPointInPolygon evaluates its quotient
\* for one point: && evaluates its right operand only for the edges whose
\* left operand (yi > y) !== (yj > y) is true.
DivisorsOfPoint(point, polygon) ==
    { polygon[IF i = 1 THEN Len(polygon) ELSE i - 1].y - polygon[i].y :
        i \in { k \in 1..Len(polygon) :
                  LET j == IF k = 1 THEN Len(polygon) ELSE k - 1
                  IN  (polygon[k].y > point.y) # (polygon[j].y > point.y) } }

\* The divisors met by one call of selectInPolygon.
PolygonDivisors(polygonPoints, allCoords) ==
    IF Len(polygonPoints) < 3 THEN { }
    ELSE UNION { DivisorsOfPoint([x |-> allCoords[i].x, y |-> allCoords[i].z],
                                 polygonPoints) : i \in 1..Len(allCoords) }

RECURSIVE PolygonLoop(_, _, _, _)
PolygonLoop(polygonPoints, allCoords, i, selected) ==
    IF i > Len(allCoords) THEN selected
    ELSE PolygonLoop(polygonPoints, allCoords, i + 1,
            IF IsPointInPolygon([x |-> allCoords[i].x, y |-> allCoords[i].z],
                                polygonPoints)
            THEN Append(selected, allCoords[i]) ELSE selected)

\* variant of selectInPolygon that hands back every point when the polygon
\* has fewer than 3 vertices
SelectInPolygonKeepingAll(polygonPoints, allCoords) ==
    IF Len(polygonPoints) < 3 THEN allCoords
    ELSE PolygonLoop(polygonPoints, allCoords, 1, << >>)

SelectInPolygon(polygonPoints, allCoords) ==
    IF Len(polygonPoints) < 3 THEN << >>
    ELSE PolygonLoop(polygonPoints, allCoords, 1, << >>)

\* The polygon test as it is computed on doubles: every subtraction,
\* product, quotient and sum of line 70 is rounded to the nearest double,
\* in the order the expression is evaluated; comparisons are exact.
EdgeIntersectsDouble(point, pi, pj) ==
    LET x == point.x   y == point.y
        xi == pi.x     yi == pi.y
        xj == pj.x     yj == pj.y
    IN  /\ QLess(y, yi) # QLess(y, yj)
        /\ QLess(x, FlAdd(FlDiv(FlMul(FlSub(xj, xi), FlSub(y, yi)),
                                 FlSub(yj, yi)), xi))

RECURSIVE PolygonEdgeLoopDouble(_, _, _, _, _)
PolygonEdgeLoopDouble(point, polygon, i, j, inside) ==
    IF i > Len(polygon) THEN inside
    ELSE PolygonEdgeLoopDouble(point, polygon, i + 1, i,
            IF EdgeIntersectsDouble(point, polygon[i], polygon[j])
            THEN ~inside ELSE inside)

IsPointInPolygonDouble(point, polygon) ==
    PolygonEdgeLoopDouble(point, polygon, 1, Len(polygon), FALSE)

RECURSIVE PolygonLoopDouble(_, _, _, _)
PolygonLoopDouble(polygonPoints, allCoords, i, selected) ==
    IF i > Len(allCoords) THEN selected
    ELSE PolygonLoopDouble(polygonPoints, allCoords, i + 1,
            IF IsPointInPolygonDouble([x |-> allCoords[i].x,
                                       y |-> allCoords[i].z], polygonPoints)
            THEN Append(selected, allCoords[i]) ELSE selected)

SelectInPolygonDouble(polygonPoints, allCoords) ==
    IF Len(polygonPoints) < 3 THEN << >>
    ELSE PolygonLoopDouble(polygonPoints, allCoords, 1, << >>)

\* The same three functions on a query unprojected from screen positions:
\* the query's numbers are doubles, the points keep their whole
\* coordinates, and every difference, product and sum is rounded to the
\* nearest double.
InRectangleOnGround(company, min, max) ==
    /\ QLeq(min.x, QInt(company.x)) /\ QLeq(QInt(company.x), max.x)
    /\ QLeq(min.y, QInt(company.z)) /\ QLeq(QInt(company.z), max.y)

SelectInRectangleOnGround(min, max, allCoords) ==
    LET Test(company) == InRectangleOnGround(company, min, max)
    IN  SelectSeq(allCoords, Test)

InCircleOnGround(company, center, radiusSq) ==
    CHOOSE r \in
      { QLeq(FlAdd(FlMul(dx, dx), FlMul(dz, dz)), radiusSq) :
          dx \in { FlSub(QInt(company.x), center.x) },
          dz \in { FlSub(QInt(company.z), center.y) } } : TRUE

SelectInCircleOnGround(center, radius, allCoords) ==
    CHOOSE r \in
      { SelectSeq(allCoords,
                  LAMBDA company : InCircleOnGround(company, center, radiusSq)) :
          radiusSq \in { FlMul(radius, radius) } } : TRUE

SelectInPolygonOnGround(polygonPoints, allCoords) ==
    LET Test(company) ==
            IsPointInPolygonDouble([ x |-> QInt(company.x),
                                     y |-> QInt(company.z) ], polygonPoints)
    IN  IF Len(polygonPoints) < 3 THEN << >>
        ELSE SelectSeq(allCoords, Test)

WorkerComputeOnGround(req) ==
    CASE req.type = "rectangle" ->
            SelectInRectangleOnGround(req.geometry.min, req.geometry.max,
                                      req.coords)
      [] req.type = "circle" ->
            SelectInCircleOnGround(req.geometry.center, req.geometry.radius,
                                   req.coords)
      [] req.type = "polygon" ->
            SelectInPolygonOnGround(req.geometry.points, req.coords)

\* what the worker answers to one request; units says how the request's
\* numbers are represented, "whole" for integers and "ground" for the
\* doubles of unprojected ground coordinates
WorkerCompute(req) ==
    CASE req.units = "ground" -> WorkerComputeOnGround(req)
      [] req.type = "rectangle" ->
            SelectInRectangle(req.geometry.min, req.geometry.max, req.coords)
      [] req.type = "circle" ->
            SelectInCircle(req.geometry.center, req.geometry.radius, req.coords)
      [] req.type = "polygon" ->
            SelectInPolygon(req.geometry.points, req.coords)

----------------------------------------------------------------------------
(* Selection slice of the store (selectionSlice).                          *)

HistoryCapacity == 50

\* variant of setSelectedCompanies that adds the payload to the current set
SetSelectedCompaniesMerging(payload) == selectedCompanies \cup Range(payload)

\* setSelectedCompanies: new Set(action.payload)
SetSelectedCompanies(payload) == Range(payload)

\* variant of addToSelectionHistory that pushes the entry at the end before
\* cutting the list to its first HistoryCapacity entries
AddToSelectionHistoryPushing(history, payload, clock, seq) ==
    LET historyEntry == [ id         |-> << "selection", clock >>,
                          timestamp  |-> clock,
                          companyIds |-> payload.companyIds,
                          stats      |-> payload.stats,
                          mode       |-> payload.mode,
                          geometry   |-> payload.geometry,
                          seq        |-> seq ]
        pushed == history \o << historyEntry >>
    IN  IF Len(pushed) > HistoryCapacity
        THEN SubSeq(pushed, 1, HistoryCapacity)
        ELSE pushed

\* addToSelectionHistory: the entry is unshifted, then the list is cut to
\* its first HistoryCapacity entries.  seq tags the entry with its insertion
\* number for observation; it is not a field of the program's entry.
AddToSelectionHistory(history, payload, clock, seq) ==
    LET historyEntry == [ id         |-> << "selection", clock >>,
                          timestamp  |-> clock,
                          companyIds |-> payload.companyIds,
                          stats      |-> payload.stats,
                          mode       |-> payload.mode,
                          geometry   |-> payload.geometry,
                          seq        |-> seq ]
        unshifted == << historyEntry >> \o history
    IN  IF Len(unshifted) > HistoryCapacity
        THEN SubSeq(unshifted, 1, HistoryCapacity)
        ELSE unshifted

\* removeFromSelectionHistory: filter(entry => entry.id !== payload)
\* variant of the removal that drops only the first entry with the id
RemoveFirstFromSelectionHistory(history, id) ==
    LET hits == { i \in 1..Len(history) : history[i].id = id }
    IN  IF hits = { } THEN history
        ELSE LET first == CHOOSE i \in hits : \A j \in hits : i <= j
             IN  SubSeq(history, 1, first - 1)
                     \o SubSeq(history, first + 1, Len(history))

RemoveFromSelectionHistory(history, id) ==
    SelectSeq(history, LAMBDA entry : entry.id # id)

\* clearSelectionHistory
ClearSelectionHistory == << >>

\* addToSelection: each ticker of the payload is added to the set
AddToSelection(selected, payload) == selected \cup Range(payload)

\* removeFromSelection: each ticker of the payload is deleted from the set
RemoveFromSelection(selected, payload) == selected \ Range(payload)

\* toggleSelection: a ticker the set has is deleted, any other is added
ToggleSelection(selected, ticker) ==
    IF ticker \in selected THEN selected \ { ticker }
    ELSE selected \cup { ticker }

\* clearSelection: the set is emptied and the stats are set to null
ClearSelection(state) ==
    [ state EXCEPT !.selectedCompanies = { }, !.selectionStats = NoStats ]

\* restoreSelectionFromHistory: selectionHistory.find takes the first entry
\* with the id; without one the state stays as it is
RestoreSelectionFromHistory(state, historyId) ==
    LET hits == { i \in 1..Len(state.selectionHistory) :
                    state.selectionHistory[i].id = historyId }
    IN  IF hits = { } THEN state
        ELSE LET historyEntry ==
                     state.selectionHistory[
                         CHOOSE i \in hits : \A j \in hits : i <= j ]
             IN  [ state EXCEPT
                     !.selectedCompanies = Range(historyEntry.companyIds),
                     !.selectionStats = historyEntry.stats ]

----------------------------------------------------------------------------
(* Companies slice and the point buffer (useThreeScene.updatePoints).      *)

MAX_POINTS == 5000
NoPos == << >>

\* d3.geoAlbersUsa().scale(1000).translate([0, 0]) stands outside the
\* repository; the stand-in keeps what updatePoints relies on: a pure map
\* from [longitude, latitude] to a plane position, with no value outside
\* the covered area.
Projection(longitude, latitude) ==
    IF longitude >= -125 /\ longitude <= -66 /\ latitude >= 25 /\ latitude <= 49
    THEN << longitude + 96, 38 - latitude >>
    ELSE NoPos

\* entities[company.ticker] = company: a ticker already present keeps its
\* place and takes the new value, a new ticker is added at the end
SetEntity(entities, company) ==
    LET at == { i \in 1..Len(entities) : entities[i].ticker = company.ticker }
    IN  IF at = {} THEN Append(entities, company)
        ELSE [ entities EXCEPT ![CHOOSE i \in at : TRUE] = company ]

\* action.payload.forEach over payload[lo..hi], in order: the first half of
\* the range, then the second half on what the first half left
RECURSIVE SetCompaniesLoop(_, _, _, _)
SetCompaniesLoop(payload, lo, hi, entities) ==
    IF lo > hi THEN entities
    ELSE IF lo = hi THEN SetEntity(entities, payload[lo])
    ELSE LET mid == (lo + hi) \div 2
         IN  CHOOSE r \in
                 { SetCompaniesLoop(payload, mid + 1, hi, left) :
                     left \in { SetCompaniesLoop(payload, lo, mid, entities) } } :
                 TRUE

\* setCompanies: entities[company.ticker] = company for each payload entry;
\* Object.values then lists each ticker once, at the place of its first
\* occurrence and with the value of its last (tickers are not written as
\* integers, so the keys keep their insertion order).
SetCompanies(payload, entities) ==
    SetCompaniesLoop(payload, 1, Len(payload), entities)

\* updateCompany: { ...state.entities[ticker], ...updates } with updates the
\* payload without its ticker; a ticker the store does not hold changes
\* nothing
UpdateCompany(entities, payload) ==
    LET at == { i \in 1..Len(entities) : entities[i].ticker = payload.ticker }
        updates == [ k \in DOMAIN payload \ { "ticker" } |-> payload[k] ]
    IN  IF at = { } THEN entities
        ELSE [ entities EXCEPT ![CHOOSE i \in at : TRUE] = updates @@ @ ]

\* batchUpdateCompanies: action.payload.forEach, the updates in order
RECURSIVE BatchUpdateCompanies(_, _)
BatchUpdateCompanies(entities, payload) ==
    IF payload = << >> THEN entities
    ELSE CHOOSE r \in
             { BatchUpdateCompanies(next, Tail(payload)) :
                 next \in { UpdateCompany(entities, Head(payload)) } } : TRUE

\* c.latitude && c.longitude: null, undefined and 0 are all falsy
HasLocation(c) ==
    /\ c.latitude \in Int /\ c.latitude # 0
    /\ c.longitude \in Int /\ c.longitude # 0

\* variant of the colour rule that looks at the selected set first
PointColorSelectedFirst(ticker, hovered, selected) ==
    IF ticker \in selected THEN "SELECTION_COLOR"
    ELSE IF ticker = hovered THEN "HOVER_COLOR"
    ELSE "DEFAULT_COLOR"

\* colour of one point: hovered, else selected, else default
PointColor(ticker, hovered, selected) ==
    IF ticker = hovered THEN "HOVER_COLOR"
    ELSE IF ticker \in selected THEN "SELECTION_COLOR"
    ELSE "DEFAULT_COLOR"

EmptyBuffer ==
    [ coords |-> << >>, colors |-> << >>, indexToTicker |-> << >>,
      tickerToIndex |-> << >>, index |-> 0 ]

\* variant of the loop turn that leaves the loop one entity late
UpdatePointsStepLateBreak(company, hovered, selected, buf) ==
    IF buf.index > MAX_POINTS THEN buf
    ELSE LET pos == Projection(company.longitude, company.latitude)
         IN  IF pos = NoPos THEN buf
             ELSE [ coords |-> Append(buf.coords,
                        [ ticker |-> company.ticker, x |-> pos[1],
                          y |-> "0.2", z |-> pos[2] ]),
                    colors |-> Append(buf.colors,
                        PointColor(company.ticker, hovered, selected)),
                    indexToTicker |->
                        (buf.index :> company.ticker) @@ buf.indexToTicker,
                    tickerToIndex |->
                        (company.ticker :> buf.index) @@ buf.tickerToIndex,
                    index |-> buf.index + 1 ]

\* variant of the loop turn that leaves the loop at the first entity
\* without a projection
UpdatePointsStepGivingUp(company, hovered, selected, buf) ==
    IF buf.index >= MAX_POINTS THEN buf
    ELSE LET pos == Projection(company.longitude, company.latitude)
         IN  IF pos = NoPos THEN [ buf EXCEPT !.index = MAX_POINTS ]
             ELSE [ coords |-> Append(buf.coords,
                        [ ticker |-> company.ticker, x |-> pos[1],
                          y |-> "0.2", z |-> pos[2] ]),
                    colors |-> Append(buf.colors,
                        PointColor(company.ticker, hovered, selected)),
                    indexToTicker |->
                        (buf.index :> company.ticker) @@ buf.indexToTicker,
                    tickerToIndex |->
                        (company.ticker :> buf.index) @@ buf.tickerToIndex,
                    index |-> buf.index + 1 ]

\* variant of the loop turn that counts an entity without a projection
UpdatePointsStepCountingSkipped(company, hovered, selected, buf) ==
    IF buf.index >= MAX_POINTS THEN buf
    ELSE LET pos == Projection(company.longitude, company.latitude)
         IN  IF pos = NoPos THEN [ buf EXCEPT !.index = buf.index + 1 ]
             ELSE [ coords |-> Append(buf.coords,
                        [ ticker |-> company.ticker, x |-> pos[1],
                          y |-> "0.2", z |-> pos[2] ]),
                    colors |-> Append(buf.colors,
                        PointColor(company.ticker, hovered, selected)),
                    indexToTicker |->
                        (buf.index :> company.ticker) @@ buf.indexToTicker,
                    tickerToIndex |->
                        (company.ticker :> buf.index) @@ buf.tickerToIndex,
                    index |-> buf.index + 1 ]

\* one turn of the for loop of updatePoints; once index has reached
\* MAX_POINTS the loop has left through its break and nothing is placed.
\* indexToTicker and tickerToIndex are kept as functions, slot 0 first
UpdatePointsStep(company, hovered, selected, buf) ==
    IF buf.index >= MAX_POINTS THEN buf
    ELSE LET pos == Projection(company.longitude, company.latitude)
         IN  IF pos = NoPos THEN buf
             ELSE [ coords |-> Append(buf.coords,
                        [ ticker |-> company.ticker, x |-> pos[1],
                          y |-> "0.2", z |-> pos[2] ]),
                    colors |-> Append(buf.colors,
                        PointColor(company.ticker, hovered, selected)),
                    indexToTicker |->
                        (buf.index :> company.ticker) @@ buf.indexToTicker,
                    tickerToIndex |->
                        (company.ticker :> buf.index) @@ buf.tickerToIndex,
                    index |-> buf.index + 1 ]

\* the for loop of updatePoints over validCompanies[lo..hi], in order: the
\* first half of the range, then the second half on the buffer the first
\* half left
RECURSIVE UpdatePointsLoop(_, _, _, _, _, _)
UpdatePointsLoop(validCompanies, lo, hi, hovered, selected, buf) ==
    IF lo > hi THEN buf
    ELSE IF lo = hi
    THEN UpdatePointsStep(validCompanies[lo], hovered, selected, buf)
    ELSE LET mid == (lo + hi) \div 2
         IN  CHOOSE r \in
                 { UpdatePointsLoop(validCompanies, mid + 1, hi, hovered,
                                    selected, left) :
                     left \in { UpdatePointsLoop(validCompanies, lo, mid,
                                                 hovered, selected, buf) } } :
                 TRUE

UpdatePointsBuffer(entities, hovered, selected) ==
    LET validCompanies == SelectSeq(entities, HasLocation)
    IN  UpdatePointsLoop(validCompanies, 1, Len(validCompanies), hovered,
                         selected, EmptyBuffer)

\* entity snapshots delivered by the data layer
Snapshots ==
    { << [ ticker |-> "A", latitude |-> 41, longitude |-> -74 ],
         [ ticker |-> "B", latitude |-> 34, longitude |-> -118 ] >>,
      << [ ticker |-> "A", latitude |-> 41, longitude |-> -74 ],
         [ ticker |-> "C", latitude |-> 0,  longitude |-> -100 ],
         [ ticker |-> "D", latitude |-> 60, longitude |-> -100 ],
         [ ticker |-> "E", latitude |-> 38, longitude |-> -96 ],
         [ ticker |-> "B", latitude |-> 34, longitude |-> -118 ] >> }

\* a run is followed for MaxLargeOps handlers after a snapshot with more
\* entities than the buffer has slots has arrived; bufOps is 0 until then
BufBudget == bufOps <= MaxLargeOps

BufOpsAfter == IF bufOps > 0 THEN bufOps + 1 ELSE 0

\* a mutationFn has returned [] and its promise callbacks have not run yet;
\* they run before the next event is handled
SettlePending ==
    \E i \in 1..Len(mutations) : mutations[i].status = "started"

\* companies/setCompanies dispatched by the data layer
SetCompaniesAction ==
    \E payload \in Snapshots :
        /\ ~SettlePending
        /\ SetCompanies(payload, << >>) # companies
        /\ companies' = SetCompanies(payload, << >>)
        /\ BufBudget
        /\ bufOps' = BufOpsAfter
        /\ UNCHANGED << hoveredId, selectedCompanies, selectionStats,
                        selectionHistory, isSelecting, now, bufferVars,
                        workerVars, camVars, callVars, lastWrite, addCount,
                        mapVars, gestureVars, colorVars, viewVars, netVars, bufPrev,
                    histPrev, hoverPrev >>

\* updates the data layer may dispatch: one moves an entity, one takes an
\* entity's location away, one takes an entity out of the projected area,
\* one names a ticker the store may not hold
CompanyUpdates ==
    { [ ticker |-> "A", latitude |-> 30, longitude |-> -100 ],
      [ ticker |-> "B", latitude |-> 0 ],
      [ ticker |-> "T5", latitude |-> 60 ],
      [ ticker |-> "Z", latitude |-> 1 ] }

CompanyBatches ==
    { << [ ticker |-> "B", latitude |-> 0 ], [ ticker |-> "Z", latitude |-> 1 ] >>,
      << [ ticker |-> "E", longitude |-> -130 ],
         [ ticker |-> "E", longitude |-> -90 ],
         [ ticker |-> "T3", longitude |-> 0 ] >> }

\* companies/updateCompany dispatched by the data layer
UpdateCompanyAction ==
    \E payload \in CompanyUpdates :
        /\ UpdateCompany(companies, payload) # companies
        /\ companies' = UpdateCompany(companies, payload)
        /\ BufBudget
        /\ bufOps' = BufOpsAfter
        /\ UNCHANGED << hoveredId, selectedCompanies, selectionStats,
                        selectionHistory, isSelecting, now, bufferVars,
                        workerVars, camVars, callVars, lastWrite, addCount,
                        mapVars, gestureVars, colorVars, viewVars, netVars, bufPrev,
                    histPrev, hoverPrev >>

\* companies/batchUpdateCompanies dispatched by the data layer
BatchUpdateCompaniesAction ==
    \E payload \in CompanyBatches :
        /\ BatchUpdateCompanies(companies, payload) # companies
        /\ companies' = BatchUpdateCompanies(companies, payload)
        /\ BufBudget
        /\ bufOps' = BufOpsAfter
        /\ UNCHANGED << hoveredId, selectedCompanies, selectionStats,
                        selectionHistory, isSelecting, now, bufferVars,
                        workerVars, camVars, callVars, lastWrite, addCount,
                        mapVars, gestureVars, colorVars, viewVars, netVars, bufPrev,
                    histPrev, hoverPrev >>

\* loadUSMap().then(() => { initPoints(); setSceneReady(true) })
SceneReady ==
    /\ ~sceneReady
    /\ BufBudget
    /\ sceneReady' = TRUE
    /\ bufOps' = BufOpsAfter
    /\ UNCHANGED << storeVars, projectedCoords, indexToTicker, tickerToIndex,
                    pointColors, pointCount, workerVars, camVars, callVars,
                    lastWrite, addCount, lastHoveredIndex,
                    mapVars, gestureVars, colorVars, viewVars, netVars, bufPrev,
                    histPrev, hoverPrev >>

\* what updatePoints reads: the dependencies of its effect
BufferInputs ==
    [ op |-> "updatePoints", companies |-> companies, hoveredId |-> hoveredId,
      selectedCompanies |-> selectedCompanies ]

\* the effect that runs updatePoints once the scene is ready and whenever
\* companies, hoveredId or selectedCompanies changed
UpdatePoints ==
    /\ sceneReady
    /\ BufBudget
    /\ bufPrev # BufferInputs
    /\ LET buf == UpdatePointsBuffer(companies, hoveredId, selectedCompanies)
       IN  /\ projectedCoords' = buf.coords
           /\ pointColors' = buf.colors
           /\ indexToTicker' = buf.indexToTicker
           /\ tickerToIndex' = buf.tickerToIndex
           /\ pointCount' = buf.index
    /\ bufPrev' = BufferInputs
    /\ bufOps' = BufOpsAfter
    /\ hoverPrev' = [ hoverPrev EXCEPT !.fresh = FALSE ]
    /\ UNCHANGED << storeVars, sceneReady, workerVars, camVars, callVars,
                    lastWrite, addCount, lastHoveredIndex,
                    mapVars, gestureVars, colorVars, viewVars, netVars, histPrev >>

----------------------------------------------------------------------------
(* Selection queries: useSelection.performSpatialSelection, the worker     *)
(* manager and the worker.                                                 *)
(*                                                                         *)
(* mutate() starts mutationFn: it reads the projected coordinates and      *)
(* either returns [] itself or posts a request to the worker.  mutationFn  *)
(* is async, so even its [] reaches onSuccess and onSettled only in a      *)
(* promise callback, after the handler that called mutate has returned and *)
(* before any other event is handled.  The worker serves its requests one  *)
(* at a time in arrival order, and its answers reach the main thread in    *)
(* that order.  onSuccess and onSettled are options of the mutation, so    *)
(* they run for every mutate call whose promise resolves.                  *)

RECURSIVE Tickers(_)
\* result.map(company => company.ticker)
Tickers(result) ==
    IF result = << >> THEN << >>
    ELSE << Head(result).ticker >> \o Tickers(Tail(result))

\* geometries the gesture layer hands to selectRectangle / selectCircle /
\* selectPolygon (world coordinates)
P2(x, y) == [ x |-> x, y |-> y ]

RectangleQueries ==
    { [ min |-> P2(20, -5),   max |-> P2(25, 0) ],
      [ min |-> P2(-30, -10), max |-> P2(30, 10) ] }

CircleQueries ==
    { [ center |-> P2(0, 0),   radius |-> 0 ],
      [ center |-> P2(-22, 3), radius |-> 1 ] }

PolygonQueries ==
    { [ points |-> << P2(-25, 0), P2(5, -5), P2(5, 8) >> ] }

\* onSuccess followed by onSettled for the query with identifier id
Settle(id, result, latest) ==
    /\ selectedCompanies' = SetSelectedCompanies(Tickers(result))
    /\ isSelecting' = FALSE
    /\ lastWrite' = [ from |-> id, latest |-> latest ]

\* selectRectangle / selectCircle / selectPolygon: setIsSelecting(true),
\* then performSpatialSelection.mutate
PerformSpatialSelection(type, geometry, units) ==
    LET id == Len(mutations) + 1
        allCoords == projectedCoords
        request == [ type |-> type, geometry |-> geometry,
                     coords |-> allCoords, units |-> units ]
    IN  /\ Len(mutations) < MaxQueries
        /\ ~SettlePending
        /\ IF allCoords = << >> \/ ~spatialAPI
           THEN \* mutationFn returns [] without the worker
                /\ mutations' = Append(mutations,
                      request @@ [ status |-> "started", result |-> << >> ])
                /\ UNCHANGED << workerInbox >>
           ELSE /\ mutations' = Append(mutations,
                      request @@ [ status |-> "posted", result |-> << >> ])
                /\ workerInbox' = Append(workerInbox, id)
        /\ isSelecting' = TRUE
        /\ UNCHANGED << selectedCompanies, lastWrite >>

\* the promise of a mutationFn that returned [] resolves: onSuccess and
\* onSettled run
MutationResolves ==
    /\ \E id \in 1..Len(mutations) :
          /\ mutations[id].status = "started"
          /\ mutations' = [ mutations EXCEPT ![id].status = "settled" ]
          /\ Settle(id, << >>, Len(mutations))
    /\ UNCHANGED << companies, hoveredId, selectionStats, selectionHistory,
                    now, bufferVars, spatialAPI, workerInbox, workerOutbox,
                    camVars, callVars, addCount,
                    mapVars, gestureVars, colorVars, viewVars, netVars, runVars >>

Mutate(type, geometry) ==
    /\ PerformSpatialSelection(type, geometry, "whole")
    /\ UNCHANGED << companies, hoveredId, selectionStats, selectionHistory,
                    now, bufferVars, spatialAPI, workerOutbox, camVars,
                    callVars, addCount,
                    mapVars, gestureVars, colorVars, viewVars, netVars, runVars >>

SelectRectangle ==
    \E g \in RectangleQueries : Mutate("rectangle", g)

SelectCircle ==
    \E g \in CircleQueries : Mutate("circle", g)

SelectPolygon ==
    \E g \in PolygonQueries : Mutate("polygon", g)

\* the worker takes its oldest request, computes and posts the answer
WorkerRespond ==
    /\ workerInbox # << >>
    /\ LET id == Head(workerInbox)
       IN  /\ mutations' = [ mutations EXCEPT
                  ![id].status = "responded",
                  ![id].result = WorkerCompute(mutations[id]) ]
           /\ workerOutbox' = Append(workerOutbox, id)
    /\ workerInbox' = Tail(workerInbox)
    /\ UNCHANGED << storeVars, bufferVars, spatialAPI, camVars, callVars,
                    lastWrite, addCount,
                    mapVars, gestureVars, colorVars, viewVars, netVars, runVars >>

\* the answer arrives: the manager's await returns it, mutationFn resolves,
\* onSuccess and onSettled run
ReceiveResponse ==
    /\ workerOutbox # << >>
    /\ ~SettlePending
    /\ LET id == Head(workerOutbox)
       IN  /\ mutations' = [ mutations EXCEPT ![id].status = "settled" ]
           /\ Settle(id, mutations[id].result, Len(mutations))
    /\ workerOutbox' = Tail(workerOutbox)
    /\ UNCHANGED << companies, hoveredId, selectionStats, selectionHistory,
                    now, bufferVars, spatialAPI, workerInbox, camVars,
                    callVars, addCount,
                    mapVars, gestureVars, colorVars, viewVars, netVars, runVars >>

----------------------------------------------------------------------------
(* Selection history actions dispatched to the store.                      *)

RECURSIVE SetToSeq(_)
SetToSeq(S) ==
    IF S = {} THEN << >>
    ELSE LET e == CHOOSE x \in S : TRUE
         IN  << e >> \o SetToSeq(S \ {e})

\* the payload a caller builds from the current selection
HistoryPayload ==
    [ companyIds |-> SetToSeq(selectedCompanies),
      stats      |-> [ company_count |-> Cardinality(selectedCompanies) ],
      mode       |-> "rect",
      geometry   |-> NULL ]

HistoryIds == { << "selection", t >> : t \in 0..MaxClock }

\* the dispatches at which SpecHist interleaves removals, clears and clock
\* ticks with addToSelectionHistory
Interleaved == addCount < MaxFreshAdds \/ addCount >= HistPrefill

Tick ==
    /\ Interleaved
    /\ now < MaxClock
    /\ now' = now + 1
    /\ UNCHANGED << companies, hoveredId, selectedCompanies, selectionStats,
                    selectionHistory, isSelecting, bufferVars, workerVars,
                    camVars, callVars, lastWrite, addCount,
                    mapVars, gestureVars, colorVars, viewVars, netVars, runVars >>

AddToSelectionHistoryAction ==
    /\ addCount < HistPrefill + MaxFreshAdds
    /\ selectionHistory' =
          AddToSelectionHistory(selectionHistory, HistoryPayload, now,
                                addCount + 1)
    /\ addCount' = addCount + 1
    /\ UNCHANGED << companies, hoveredId, selectedCompanies, selectionStats,
                    isSelecting, now, bufferVars, workerVars, camVars,
                    callVars, lastWrite,
                    mapVars, gestureVars, colorVars, viewVars, netVars, runVars >>

RemoveFromSelectionHistoryAction ==
    /\ Interleaved
    /\ \E id \in HistoryIds :
          /\ \E i \in 1..Len(selectionHistory) : selectionHistory[i].id = id
          /\ selectionHistory' = RemoveFromSelectionHistory(selectionHistory, id)
    /\ UNCHANGED << companies, hoveredId, selectedCompanies, selectionStats,
                    isSelecting, now, bufferVars, workerVars, camVars,
                    callVars, lastWrite, addCount,
                    mapVars, gestureVars, colorVars, viewVars, netVars, runVars >>

ClearSelectionHistoryAction ==
    /\ Interleaved
    /\ selectionHistory # << >>
    /\ selectionHistory' = ClearSelectionHistory
    /\ UNCHANGED << companies, hoveredId, selectedCompanies, selectionStats,
                    isSelecting, now, bufferVars, workerVars, camVars,
                    callVars, lastWrite, addCount,
                    mapVars, gestureVars, colorVars, viewVars, netVars, runVars >>

----------------------------------------------------------------------------
(* The realtime slice of the store.                                        *)
(*                                                                         *)
(* An alert id is written << prefix, clock >>, or << "alert", clock, r >>  *)
(* with r the random part.  priceUpdates is the function from the tickers  *)
(* that have an update to their last update.                               *)

MAX_ALERTS == 100
HIGH_LATENCY == 5000

\* variant of addAlert that keeps every alert
AddAlertUncapped(alerts, payload, clock, random) ==
    << payload @@ [ id |-> << "alert", clock, random >>, read |-> FALSE ] >>
        \o alerts

\* addAlert: the alert is put first and the list is cut to 100
AddAlert(alerts, payload, clock, random) ==
    LET alert == payload @@ [ id |-> << "alert", clock, random >>,
                              read |-> FALSE ]
        unshifted == << alert >> \o alerts
    IN  IF Len(unshifted) > MAX_ALERTS
        THEN SubSeq(unshifted, 1, MAX_ALERTS)
        ELSE unshifted

\* markAlertAsRead: the first alert with the id, if any
MarkAlertAsRead(alerts, id) ==
    LET hits == { i \in 1..Len(alerts) : alerts[i].id = id }
    IN  IF hits = { } THEN alerts
        ELSE [ alerts EXCEPT
                 ![CHOOSE i \in hits : \A j \in hits : i <= j].read = TRUE ]

RemoveAlert(alerts, id) == SelectSeq(alerts, LAMBDA alert : alert.id # id)

\* markAllAlertsAsRead
MarkAllAlertsAsRead(alerts) ==
    [ i \in 1..Len(alerts) |-> [ alerts[i] EXCEPT !.read = TRUE ] ]

\* updateConnectionQuality
UpdateConnectionQuality(state, payload, clock) ==
    [ state EXCEPT
        !.latency = payload.latency,
        !.alerts = IF payload.latency > HIGH_LATENCY
                   THEN << [ id |-> << "connection", clock >>,
                             severity |-> "warning",
                             message |-> "High latency detected",
                             timestamp |-> clock,
                             read |-> FALSE ] >> \o @
                   ELSE @ ]

\* if (message): the message is there and is not the empty string
Truthy(payload) == "message" \in DOMAIN payload /\ payload.message # ""

\* updateSystemStatus; a payload without message has no message field
UpdateSystemStatus(state, payload, clock) ==
    LET offline == payload.status = "offline"
        severity == IF offline THEN "critical"
                    ELSE IF payload.status = "degraded" THEN "warning"
                    ELSE "info"
    IN  [ state EXCEPT
            !.connected = IF offline THEN FALSE ELSE @,
            !.subscriptions = IF offline THEN { } ELSE @,
            !.alerts = IF Truthy(payload)
                       THEN << [ id |-> << "system", clock >>,
                                 severity |-> severity,
                                 message |-> payload.message,
                                 timestamp |-> clock,
                                 read |-> FALSE ] >> \o @
                       ELSE @ ]

\* state.lastUpdate: null, a number, or the -Infinity that Math.max() of no
\* numbers is
NoUpdate == [ kind |-> "null", at |-> 0 ]
Timestamp(t) == [ kind |-> "number", at |-> t ]
MinusInfinity == [ kind |-> "-Infinity", at |-> 0 ]

\* state.priceUpdates[update.ticker] = update
PutPriceUpdate(priceUpdates, update) ==
    [ ticker \in DOMAIN priceUpdates \cup { update.ticker } |->
        IF ticker = update.ticker THEN update ELSE priceUpdates[ticker] ]

RECURSIVE PutPriceUpdates(_, _, _)
PutPriceUpdates(priceUpdates, updates, i) ==
    IF i > Len(updates) THEN priceUpdates
    ELSE PutPriceUpdates(PutPriceUpdate(priceUpdates, updates[i]), updates,
                         i + 1)

\* Math.max(...updates.map(update => update.timestamp))
LatestTimestamp(updates) ==
    IF updates = << >> THEN MinusInfinity
    ELSE Timestamp(CHOOSE t \in { updates[i].timestamp : i \in DOMAIN updates } :
                     \A i \in DOMAIN updates : updates[i].timestamp <= t)

\* batchPriceUpdates
BatchPriceUpdates(state, updates) ==
    [ state EXCEPT !.priceUpdates = PutPriceUpdates(@, updates, 1),
                   !.lastUpdate = LatestTimestamp(updates) ]

\* the slice's reducer; clock is Date.now() and random the random part of
\* an id
RealtimeReducer(state, action, clock, random) ==
    CASE action.type = "realtime/setConnectionStatus" ->
            [ state EXCEPT !.connected = action.payload,
                           !.subscriptions =
                               IF action.payload THEN @ ELSE { } ]
      [] action.type = "realtime/addAlert" ->
            [ state EXCEPT !.alerts = AddAlert(@, action.payload, clock,
                                               random) ]
      [] action.type = "realtime/updateLatency" ->
            [ state EXCEPT !.latency = action.payload ]
      [] action.type = "realtime/setLastUpdate" ->
            [ state EXCEPT !.lastUpdate = Timestamp(action.payload) ]
      [] action.type = "realtime/addPriceUpdate" ->
            [ state EXCEPT
                !.priceUpdates = PutPriceUpdate(@, action.payload),
                !.lastUpdate = Timestamp(action.payload.timestamp) ]
      [] action.type = "realtime/batchPriceUpdates" ->
            BatchPriceUpdates(state, action.payload)
      [] action.type = "realtime/clearPriceUpdates" ->
            [ state EXCEPT !.priceUpdates = << >> ]
      [] action.type = "realtime/recordMetrics" ->
            [ state EXCEPT !.lastUpdate = Timestamp(clock) ]
      [] action.type = "realtime/markAlertAsRead" ->
            [ state EXCEPT !.alerts = MarkAlertAsRead(@, action.payload) ]
      [] action.type = "realtime/markAllAlertsAsRead" ->
            [ state EXCEPT !.alerts = MarkAllAlertsAsRead(@) ]
      [] action.type = "realtime/addSubscription" ->
            [ state EXCEPT !.subscriptions = @ \cup { action.payload } ]
      [] action.type = "realtime/removeSubscription" ->
            [ state EXCEPT !.subscriptions = @ \ { action.payload } ]
      [] action.type = "realtime/batchAddSubscriptions" ->
            [ state EXCEPT !.subscriptions = @ \cup Range(action.payload) ]
      [] action.type = "realtime/batchRemoveSubscriptions" ->
            [ state EXCEPT !.subscriptions = @ \ Range(action.payload) ]
      [] action.type = "realtime/clearSubscriptions" ->
            [ state EXCEPT !.subscriptions = { } ]
      [] action.type = "realtime/removeAlert" ->
            [ state EXCEPT !.alerts = RemoveAlert(@, action.payload) ]
      [] action.type = "realtime/clearAlerts" ->
            [ state EXCEPT !.alerts = << >> ]
      [] action.type = "realtime/updateConnectionQuality" ->
            UpdateConnectionQuality(state, action.payload, clock)
      [] action.type = "realtime/updateSystemStatus" ->
            UpdateSystemStatus(state, action.payload, clock)
      [] OTHER -> state

----------------------------------------------------------------------------
(* The map slice of the store: camera and viewport.                        *)
(*                                                                         *)
(* The slice's numbers are JavaScript doubles; the model keeps them as     *)
(* exact rationals.  viewport.zoomLevel is Math.log2(zoom) + 4, kept as    *)
(* [ plus, log2of ] for plus + log2(log2of), with every power of two       *)
(* between 1/16 and 16 folded into plus.                                   *)

MIN_STORE_ZOOM == << 1, 10 >>
MAX_STORE_ZOOM == << 10, 1 >>

Vec3(x, y, z) == [ x |-> RInt(x), y |-> RInt(y), z |-> RInt(z) ]

\* the camera of initialState, which resetCamera writes again
DefaultCamera ==
    [ position |-> Vec3(0, 10, 0), zoom |-> RInt(1), target |-> Vec3(0, 0, 0) ]

DefaultCenter == [ lat |-> << 79, 2 >>, lng |-> << -1967, 20 >> ]

Level(n) == [ plus |-> RInt(n), log2of |-> RInt(1) ]

InitialMapView ==
    [ camera |-> DefaultCamera,
      viewport |-> [ bounds |-> [ north |-> 49, south |-> 25,
                                  east |-> -66, west |-> -125 ],
                     center |-> DefaultCenter,
                     zoomLevel |-> Level(4) ] ]

\* Math.log2(zoom) + 4
Log2Plus4(zoom) ==
    LET Pow2 == { << k, RInt(2 ^ k) >> : k \in 0..4 }
                    \cup { << -k, << 1, 2 ^ k >> >> : k \in 1..4 }
        exact == { p \in Pow2 : p[2] = zoom }
    IN  IF exact # { }
        THEN Level(4 + (CHOOSE p \in exact : TRUE)[1])
        ELSE [ plus |-> RInt(4), log2of |-> zoom ]

RMax(a, b) == IF RLt(a, b) THEN b ELSE a
RMin(a, b) == IF RLt(b, a) THEN b ELSE a

\* updateCamera: each of position, zoom and target is written when the
\* payload carries it
UpdateCamera(state, payload) ==
    [ state EXCEPT !.camera =
        [ position |-> IF "position" \in DOMAIN payload
                       THEN payload.position ELSE @.position,
          zoom |-> IF "zoom" \in DOMAIN payload THEN payload.zoom ELSE @.zoom,
          target |-> IF "target" \in DOMAIN payload
                     THEN payload.target ELSE @.target ] ]

PanCamera(state, payload) ==
    LET panSpeed == RDiv(<< 1, 20 >>, state.camera.zoom)
    IN  [ state EXCEPT
            !.camera.position.x = RSub(@, RMul(payload.deltaX, panSpeed)),
            !.camera.position.z = RSub(@, RMul(payload.deltaY, panSpeed)) ]

ZoomCamera(state, zoomFactor) ==
    LET newZoom == RMax(MIN_STORE_ZOOM,
                        RMin(MAX_STORE_ZOOM,
                             RMul(state.camera.zoom, zoomFactor)))
    IN  [ state EXCEPT !.camera.zoom = newZoom,
                       !.viewport.zoomLevel = Log2Plus4(newZoom) ]

\* variant of resetCamera that leaves the zoom as it is
ResetCameraKeepsZoom(state) ==
    [ state EXCEPT !.camera.position = Vec3(0, 10, 0),
                   !.camera.target = Vec3(0, 0, 0),
                   !.viewport.center = DefaultCenter,
                   !.viewport.zoomLevel = Level(4) ]

ResetCamera(state) ==
    [ state EXCEPT !.camera.position = Vec3(0, 10, 0),
                   !.camera.zoom = RInt(1),
                   !.camera.target = Vec3(0, 0, 0),
                   !.viewport.center = DefaultCenter,
                   !.viewport.zoomLevel = Level(4) ]

\* focusOnRegion: zoom defaults to 6
FocusOnRegion(state, payload) ==
    [ state EXCEPT !.viewport.center = payload.center,
                   !.viewport.zoomLevel =
                       IF "zoom" \in DOMAIN payload
                       THEN Level(payload.zoom) ELSE Level(6) ]

\* setViewport: { ...state.viewport, ...action.payload }
SetViewport(state, payload) ==
    [ state EXCEPT !.viewport = payload @@ @ ]

\* updateViewportBounds
UpdateViewportBounds(state, payload) ==
    [ state EXCEPT !.viewport.bounds = payload ]

\* the slice's reducer, on the actions that touch camera or viewport
MapReducer(state, action) ==
    CASE action.type = "map/updateCamera" -> UpdateCamera(state, action.payload)
      [] action.type = "map/setViewport" -> SetViewport(state, action.payload)
      [] action.type = "map/updateViewportBounds" ->
             UpdateViewportBounds(state, action.payload)
      [] action.type = "map/panCamera" -> PanCamera(state, action.payload)
      [] action.type = "map/zoomCamera" -> ZoomCamera(state, action.payload)
      [] action.type = "map/resetCamera" -> ResetCamera(state)
      [] action.type = "map/focusOnRegion" ->
             FocusOnRegion(state, action.payload)
      [] OTHER -> state

----------------------------------------------------------------------------
(* Initial states and the selection pipeline specification.                *)

\* container.clientWidth, container.clientHeight
ContainerWidth == 800
ContainerHeight == 600

\* the double 0.5
Half == [ n |-> SBig(1), d |-> BigOf(2) ]

\* v, evaluated once, handed to F
With(v, F(_)) == CHOOSE r \in { F(x) : x \in { v } } : TRUE

\* camera.position.y, set once by camera.position.set(0, 50, 0)
CameraHeight == 50

\* the frustum of new THREE.OrthographicCamera(left, right, top, bottom,
\* near, far) for aspect = width / height
FrustumSize == 1000
Aspect == FlDiv(QInt(ContainerWidth), QInt(ContainerHeight))
FrustumLeft == FlDiv(FlMul(QInt(FrustumSize), Aspect), QInt(-2))
FrustumRight == FlDiv(FlMul(QInt(FrustumSize), Aspect), QInt(2))
FrustumTop == FlDiv(QInt(FrustumSize), QInt(2))
FrustumBottom == FlDiv(QInt(FrustumSize), QInt(-2))
Near == Fl([ n |-> SBig(1), d |-> BigOf(10) ])
Far == QInt(1000)

\* Vector3.normalize of (x, y, z): divideScalar(length || 1), which is
\* multiplyScalar(1 / (length || 1)); 0 and NaN are the lengths that || 1
\* replaces
Normalize(vector) ==
    With(vector,
         LAMBDA v :
    With(FlSqrt(FlAdd(FlAdd(FlMul(v.x, v.x), FlMul(v.y, v.y)),
                      FlMul(v.z, v.z))),
         LAMBDA length :
    With(FlDiv(QInt(1), IF IsZero(length) \/ IsNaN(length) THEN QInt(1)
                        ELSE length),
         LAMBDA s : [ x |-> FlMul(v.x, s), y |-> FlMul(v.y, s),
                      z |-> FlMul(v.z, s) ])))

\* Matrix4.lookAt(eye, target, up) for the eye (0, 50, 0), the target
\* (0, 0, 0) and up = (0, 1, 0): the direction z from the target to the eye
\* is parallel to up, so up x z is the zero vector, and lookAt adds 0.0001
\* to z.z before it builds the axes x = up x z and y = z x x.  The
\* elements of the rotation that are not 0: m11 = x.x, m22 = y.y, m32 = y.z,
\* m23 = z.y, m33 = z.z.
LookAtRotation ==
    With(Normalize([ x |-> QInt(0), y |-> QInt(CameraHeight), z |-> QInt(0) ]),
         LAMBDA z0 :
    With(Normalize([ z0 EXCEPT
                       !.z = FlAdd(@, Fl([ n |-> SBig(1), d |-> BigOf(10000) ])) ]),
         LAMBDA z :
    With(Normalize([ x |-> z.z, y |-> QInt(0), z |-> QInt(0) ]),
         LAMBDA x :
           [ m11 |-> x.x, m22 |-> FlMul(z.z, x.x),
             m32 |-> QNeg(FlMul(z.y, x.x)), m23 |-> z.y, m33 |-> z.z ])))

\* Quaternion.setFromRotationMatrix, the branch for a positive trace; y and
\* z of the quaternion are 0
LookAtQuaternion ==
    With(LookAtRotation,
         LAMBDA m :
    With(FlDiv(Half, FlSqrt(FlAdd(FlAdd(FlAdd(m.m11, m.m22), m.m33),
                                  QInt(1)))),
         LAMBDA s :
           [ w |-> FlDiv(Fl([ n |-> SBig(1), d |-> BigOf(4) ]), s),
             x |-> FlMul(FlSub(m.m32, m.m23), s) ]))

\* the quaternion of a new Object3D
IdentityQuaternion == [ w |-> QInt(1), x |-> QInt(0) ]

\* Matrix4.compose(position, quaternion, scale) for a quaternion
\* (x, 0, 0, w) and scale 1: the first row and column of the rotation are
\* (1, 0, 0); e5, e6, e9 and e10 are the elements 5, 6, 9 and 10 of the
\* matrix, e12 and e14 are position.x and position.z, and element 13 is
\* position.y, which stays CameraHeight
Compose(position, q) ==
    With(FlAdd(q.x, q.x),
         LAMBDA x2 :
    With(FlMul(q.x, x2),
         LAMBDA xx :
    With(FlMul(q.w, x2),
         LAMBDA wx :
           [ e5 |-> FlSub(QInt(1), xx), e6 |-> wx, e9 |-> QNeg(wx),
             e10 |-> FlSub(QInt(1), xx),
             e12 |-> position.x, e14 |-> position.z ])))

\* Object3D.updateMatrixWorld of the camera, which has no parent:
\* matrix.compose(position, quaternion, scale) and
\* matrixWorld.copy(matrix).  The quaternion is the one camera.lookAt set.
UpdateMatrixWorld(cam) ==
    [ cam EXCEPT !.matrixWorld = Compose(cam, LookAtQuaternion) ]

\* makeOrthographic: p = 1 / (far - near), the elements 10 and 14 are
\* -2 * p and -((far + near) * p)
DepthElements ==
    With(FlDiv(QInt(1), FlSub(Far, Near)),
         LAMBDA p : [ n33 |-> FlMul(QInt(-2), p),
                      n34 |-> QNeg(FlMul(FlAdd(Far, Near), p)) ])

\* OrthographicCamera.updateProjectionMatrix: the elements 0, 5, 10 and 14
\* of makeOrthographic(cx - dx, cx + dx, cy + dy, cy - dy, near, far).  The
\* frustum is symmetric, so cx and cy are 0, as are the elements 12 and 13.
ProjectionMatrix(zoom) ==
    With(FlMul(QInt(2), zoom),
         LAMBDA twice :
    With(FlDiv(FlSub(FrustumRight, FrustumLeft), twice),
         LAMBDA dx :
    With(FlDiv(FlSub(FrustumTop, FrustumBottom), twice),
         LAMBDA dy :
           [ n11 |-> FlMul(QInt(2), FlDiv(QInt(1), FlAdd(dx, dx))),
             n22 |-> FlMul(QInt(2), FlDiv(QInt(1), FlAdd(dy, dy))),
             n33 |-> DepthElements.n33,
             n34 |-> DepthElements.n34 ])))

\* Matrix4.invert of the projection matrix, by cofactors divided by the
\* determinant; the elements 0, 5, 10, 14 and 15 of the inverse are the
\* ones that are not 0 (a product with a factor 0 is 0 and adds nothing)
ProjectionMatrixInverse(zoom) ==
    With(ProjectionMatrix(zoom),
         LAMBDA m :
    With(FlMul(m.n22, m.n33),
         LAMBDA t11 :
    With(FlDiv(QInt(1), FlMul(m.n11, t11)),
         LAMBDA detInv :
    With(FlMul(m.n11, m.n22),
         LAMBDA n1122 :
           [ e0 |-> FlMul(t11, detInv),
             e5 |-> FlMul(FlMul(m.n11, m.n33), detInv),
             e10 |-> FlMul(n1122, detInv),
             e14 |-> FlMul(QNeg(FlMul(n1122, m.n34)), detInv),
             e15 |-> FlMul(FlMul(n1122, m.n33), detInv) ]))))

\* camera.position.set(0, 50, 0), camera.lookAt(0, 0, 0) and
\* camera.updateProjectionMatrix(); a new camera has zoom 1.
\* Object3D.lookAt first brings matrixWorld up to date, with the position
\* just set and the quaternion of a new object, and then sets the
\* quaternion: matrixWorld keeps the rotation of a new object until
\* renderer.render brings it up to date again.
InitCamera ==
    [ x |-> QInt(0), z |-> QInt(0), zoom |-> QInt(1),
      matrixWorld |-> Compose([ x |-> QInt(0), z |-> QInt(0) ],
                              IdentityQuaternion),
      projectionMatrixInverse |-> ProjectionMatrixInverse(QInt(1)) ]

\* everything but the camera, with Date.now() at clock
InitButCameraAt(clock) ==
    /\ companies = << >>
    /\ hoveredId = NULL
    /\ selectedCompanies = {}
    /\ selectionStats = NoStats
    /\ selectionHistory = << >>
    /\ isSelecting = FALSE
    /\ now = clock
    /\ sceneReady = FALSE
    /\ projectedCoords = << >>
    /\ indexToTicker = << >>
    /\ tickerToIndex = << >>
    /\ pointColors = << >>
    /\ pointCount = 0
    /\ mutations = << >>
    /\ workerInbox = << >>
    /\ workerOutbox = << >>
    /\ geomCall = [ fn |-> "none" ]
    /\ lastWrite = [ from |-> 0, latest |-> 0 ]
    /\ addCount = 0
    /\ camOps = 0
    /\ camPrev = [ op |-> "none" ]
    /\ selectionMode = "pan"
    /\ selectionGeometry = NoGeometry
    /\ gesture = [ selectionMode |-> "pan", isSelecting |-> FALSE,
                   selectionStart |-> << 0, 0 >>, selectionPoints |-> << >>,
                   lastTouchPos |-> << 0, 0 >>, lastTouchDistance |-> QInt(0),
      pointsStored |-> FALSE,
                   touchStartTime |-> 0 ]
    /\ isDragging = FALSE
    /\ mousePos = << 0, 0 >>
    /\ lastHoveredIndex = -1
    /\ stateColorMap = << >>
    /\ colorQuery = [ name |-> NULL ]
    /\ colorPrev = << >>
    /\ workerCalls = << >>
    /\ managerCalls = << >>
    /\ gesturePrev = [ op |-> "none", n |-> 0 ]
    /\ bufPrev = [ op |-> "none" ]
    /\ bufOps = 0
    /\ histPrev = [ op |-> "none", n |-> 0 ]
    /\ hoverPrev = [ hit |-> -1, fresh |-> FALSE ]
    /\ mapView = InitialMapView
    /\ realtime = [ connected |-> FALSE, latency |-> 0, alerts |-> << >>,
                    subscriptions |-> { }, lastUpdate |-> NoUpdate,
                    priceUpdates |-> << >> ]
    /\ realtimePrev = [ op |-> "none", n |-> 0 ]
    /\ socket = [ ws |-> 0, sockets |-> << >>, reconnectAttempts |-> 0,
                  timers |-> 0 ]
    /\ socketPrev = [ op |-> "none", n |-> 0 ]
    /\ swCache = { }
    /\ swCall = [ strategy |-> "none", handler |-> "none", path |-> << >>,
                 served |-> "none" ]
    /\ swWork = [ runs |-> << >>, detached |-> << >>, events |-> 0 ]
    /\ mapPrev = [ op |-> "none", n |-> 0, from |-> InitialMapView ]

\* everything but the camera; the clock is counted from 0
InitButCamera == InitButCameraAt(0)

InitCommon ==
    /\ InitButCamera
    /\ camera = InitCamera

\* the manager's constructor either wraps the worker or, when creating it
\* throws, leaves spatialAPI null
Init ==
    /\ InitCommon
    /\ spatialAPI \in { TRUE, FALSE }

Next ==
    \/ SetCompaniesAction
    \/ SceneReady
    \/ UpdatePoints
    \/ SelectRectangle
    \/ SelectCircle
    \/ SelectPolygon
    \/ MutationResolves
    \/ WorkerRespond
    \/ ReceiveResponse

Spec == Init /\ [][Next]_vars

----------------------------------------------------------------------------
(* The selection-history reducers alone.                                   *)

\* SpecHist starts from the slice's initial state
InitHist ==
    /\ InitCommon
    /\ spatialAPI = TRUE

NextHist ==
    \/ Tick
    \/ AddToSelectionHistoryAction
    \/ RemoveFromSelectionHistoryAction
    \/ ClearSelectionHistoryAction

SpecHist == InitHist /\ [][NextHist]_vars

----------------------------------------------------------------------------
(* The selection history driven through useSelectionHistory.               *)
(*                                                                         *)
(* The hook's functions dispatch plain actions by type.  The slice's       *)
(* reducer answers to the types "selection/" followed by the name of a     *)
(* reducer of the slice, and returns the state it was given for any other  *)
(* type.                                                                   *)

\* the selection slice's reducer; Date.now() is read from now, and the
\* insertion number of a history entry from addCount
SelectionReducer(state, action) ==
    CASE action.type = "selection/setSelectedCompanies" ->
            [ state EXCEPT !.selectedCompanies =
                               SetSelectedCompanies(action.payload) ]
      [] action.type = "selection/addToSelection" ->
            [ state EXCEPT !.selectedCompanies =
                               AddToSelection(@, action.payload) ]
      [] action.type = "selection/removeFromSelection" ->
            [ state EXCEPT !.selectedCompanies =
                               RemoveFromSelection(@, action.payload) ]
      [] action.type = "selection/toggleSelection" ->
            [ state EXCEPT !.selectedCompanies =
                               ToggleSelection(@, action.payload) ]
      [] action.type = "selection/clearSelection" -> ClearSelection(state)
      [] action.type = "selection/setSelectionStats" ->
            [ state EXCEPT !.selectionStats = action.payload ]
      [] action.type = "selection/setIsSelecting" ->
            [ state EXCEPT !.isSelecting = action.payload ]
      [] action.type = "selection/addToSelectionHistory" ->
            [ state EXCEPT !.selectionHistory =
                 AddToSelectionHistory(@, action.payload, now, addCount + 1) ]
      [] action.type = "selection/restoreSelectionFromHistory" ->
            RestoreSelectionFromHistory(state, action.payload)
      [] action.type = "selection/removeFromSelectionHistory" ->
            [ state EXCEPT !.selectionHistory =
                 RemoveFromSelectionHistory(state.selectionHistory,
                                            action.payload) ]
      [] action.type = "selection/clearSelectionHistory" ->
            [ state EXCEPT !.selectionHistory = ClearSelectionHistory ]
      [] OTHER -> state

SelectionState ==
    [ selectedCompanies |-> selectedCompanies,
      selectionStats |-> selectionStats,
      selectionHistory |-> selectionHistory,
      isSelecting |-> isSelecting ]

\* dispatch of one action by op, a function of the hook or an action
\* creator of the slice
HookDispatch(op, action) ==
    /\ histPrev.n < MaxHookCalls
    /\ LET after == SelectionReducer(SelectionState, action)
       IN  /\ selectedCompanies' = after.selectedCompanies
           /\ selectionStats' = after.selectionStats
           /\ selectionHistory' = after.selectionHistory
           /\ isSelecting' = after.isSelecting
    /\ histPrev' = [ op |-> op, n |-> histPrev.n + 1,
                     entries |-> Len(selectionHistory), action |-> action ]
    /\ UNCHANGED << companies, hoveredId, now,
                    bufferVars, workerVars, camVars, callVars, lastWrite,
                    addCount, mapVars, gestureVars, colorVars, viewVars, netVars,
                    bufPrev, bufOps, hoverPrev >>

\* useSelectionHistory.clearHistory
ClearHistory ==
    HookDispatch("clearHistory", [ type |-> "selection/clearHistory" ])

\* useSelectionHistory.removeFromHistory
RemoveFromHistory ==
    \E historyId \in HistoryIds :
        HookDispatch("removeFromHistory",
                     [ type |-> "selection/removeFromHistory",
                       payload |-> historyId ])

\* useSelectionHistory.restoreSelection: nothing is dispatched when no
\* entry has the id
RestoreSelection ==
    \E historyId \in HistoryIds :
        /\ \E i \in 1..Len(selectionHistory) :
              selectionHistory[i].id = historyId
        /\ LET entry == selectionHistory[
                          CHOOSE i \in 1..Len(selectionHistory) :
                             /\ selectionHistory[i].id = historyId
                             /\ \A j \in 1..(i - 1) :
                                   selectionHistory[j].id # historyId ]
           IN  HookDispatch("restoreSelection",
                            [ type |-> "selection/setSelectedCompanies",
                              payload |-> entry.companyIds ])

InitHook == InitHist

NextHook ==
    \/ Tick
    \/ AddToSelectionHistoryAction
    \/ ClearHistory
    \/ RemoveFromHistory
    \/ RestoreSelection

SpecHook == InitHook /\ [][NextHook]_vars

----------------------------------------------------------------------------
(* SpecSlice: the selection slice's own actions dispatched on the store.   *)

\* store.dispatch(setSelectedCompanies(tickers)), the slice's own action
SetSelectedCompaniesDispatch ==
    /\ Interleaved
    /\ HookDispatch("setSelectedCompanies",
                    [ type |-> "selection/setSelectedCompanies",
                      payload |-> << "A", "B" >> ])

\* store.dispatch(setIsSelecting(flag)), the slice's own action
SetIsSelectingDispatch ==
    \E flag \in BOOLEAN :
      /\ Interleaved
      /\ HookDispatch("setIsSelecting",
                      [ type |-> "selection/setIsSelecting", payload |-> flag ])

\* store.dispatch(removeFromSelectionHistory(id)), the slice's own action
RemoveFromSelectionHistoryDispatch ==
    \E id \in HistoryIds :
      /\ Interleaved
      /\ HookDispatch("removeFromSelectionHistory",
                     [ type |-> "selection/removeFromSelectionHistory",
                       payload |-> id ])

\* store.dispatch(addToSelection(tickers))
AddToSelectionDispatch ==
    /\ Interleaved
    /\ HookDispatch("addToSelection",
                    [ type |-> "selection/addToSelection",
                      payload |-> << "B", "A" >> ])

\* store.dispatch(removeFromSelection(tickers))
RemoveFromSelectionDispatch ==
    /\ Interleaved
    /\ HookDispatch("removeFromSelection",
                    [ type |-> "selection/removeFromSelection",
                      payload |-> << "B", "Z" >> ])

\* store.dispatch(toggleSelection(ticker)), the slice's own action
ToggleSelectionDispatch ==
    /\ Interleaved
    /\ HookDispatch("toggleSelection",
                    [ type |-> "selection/toggleSelection",
                      payload |-> "B" ])

\* store.dispatch(clearSelection())
ClearSelectionDispatch ==
    /\ Interleaved
    /\ HookDispatch("clearSelection", [ type |-> "selection/clearSelection" ])

\* store.dispatch(setSelectionStats(stats))
SetSelectionStatsDispatch ==
    /\ Interleaved
    /\ HookDispatch("setSelectionStats",
                    [ type |-> "selection/setSelectionStats",
                      payload |-> [ company_count |->
                                      Cardinality(selectedCompanies) ] ])

\* store.dispatch(restoreSelectionFromHistory(id)), the slice's own action
RestoreSelectionFromHistoryDispatch ==
    \E id \in HistoryIds :
      /\ Interleaved
      /\ HookDispatch("restoreSelectionFromHistory",
                      [ type |-> "selection/restoreSelectionFromHistory",
                        payload |-> id ])

InitSlice == InitHist

NextSlice ==
    \/ Tick
    \/ AddToSelectionHistoryAction
    \/ SetSelectedCompaniesDispatch
    \/ AddToSelectionDispatch
    \/ RemoveFromSelectionDispatch
    \/ ToggleSelectionDispatch
    \/ ClearSelectionDispatch
    \/ SetSelectionStatsDispatch
    \/ SetIsSelectingDispatch
    \/ RestoreSelectionFromHistoryDispatch
    \/ RemoveFromSelectionHistoryDispatch

SpecSlice == InitSlice /\ [][NextSlice]_vars

----------------------------------------------------------------------------
(* SpecMap: the camera and viewport reducers of the map slice.             *)

CameraPayloads ==
    { [ position |-> Vec3(5, 10, 5) ],
      [ zoom |-> RInt(2) ],
      [ zoom |-> << 1, 2 >>, target |-> Vec3(1, 0, 1) ] }
StorePanDeltas == { << 20, 0 >>, << 0, -40 >> }
ZoomFactors == { RInt(2), << 1, 2 >>, RInt(20) }
RegionPayloads ==
    { [ center |-> [ lat |-> RInt(40), lng |-> RInt(-100) ] ],
      [ center |-> [ lat |-> RInt(30), lng |-> RInt(-90) ], zoom |-> 8 ] }

\* store.dispatch of one action of the map slice
MapDispatch(action) ==
    /\ mapPrev.n < MaxMapOps
    /\ mapView' = MapReducer(mapView, action)
    /\ mapPrev' = [ op |-> action.type, n |-> mapPrev.n + 1, from |-> mapView ]
    /\ UNCHANGED << storeVars, bufferVars, workerVars, camVars, lastWrite,
                    addCount, callVars, mapVars, gestureVars, colorVars,
                    runVars, netVars >>

UpdateCameraAction ==
    \E payload \in CameraPayloads :
        MapDispatch([ type |-> "map/updateCamera", payload |-> payload ])

PanCameraAction ==
    \E d \in StorePanDeltas :
        MapDispatch([ type |-> "map/panCamera",
                      payload |-> [ deltaX |-> RInt(d[1]),
                                    deltaY |-> RInt(d[2]) ] ])

ZoomCameraAction ==
    \E zoomFactor \in ZoomFactors :
        MapDispatch([ type |-> "map/zoomCamera", payload |-> zoomFactor ])

ResetCameraAction == MapDispatch([ type |-> "map/resetCamera" ])

FocusOnRegionAction ==
    \E payload \in RegionPayloads :
        MapDispatch([ type |-> "map/focusOnRegion", payload |-> payload ])

ViewportPayloads ==
    { [ zoomLevel |-> Level(9) ],
      [ center |-> [ lat |-> RInt(40), lng |-> RInt(-100) ],
        bounds |-> [ north |-> 45, south |-> 35, east |-> -90,
                     west |-> -110 ] ] }

SetViewportAction ==
    \E payload \in ViewportPayloads :
        MapDispatch([ type |-> "map/setViewport", payload |-> payload ])

BoundsPayloads ==
    { [ north |-> 45, south |-> 35, east |-> -90, west |-> -110 ],
      [ north |-> 49, south |-> 25, east |-> -66, west |-> -125 ] }

UpdateViewportBoundsAction ==
    \E payload \in BoundsPayloads :
        MapDispatch([ type |-> "map/updateViewportBounds",
                      payload |-> payload ])

InitMap == InitCommon /\ spatialAPI = TRUE

NextMap ==
    \/ UpdateCameraAction
    \/ PanCameraAction
    \/ ZoomCameraAction
    \/ ResetCameraAction
    \/ FocusOnRegionAction
    \/ SetViewportAction
    \/ UpdateViewportBoundsAction

SpecMap == InitMap /\ [][NextMap]_vars

----------------------------------------------------------------------------
(* SpecSocket: the websocket middleware.                                   *)

maxReconnectAttempts == 5

SocketSeen(op, i) ==
    [ op |-> op, n |-> socketPrev.n + 1,
      wasOpen |-> i # 0 /\ socket.sockets[i] = "OPEN",
      attempts |-> socket.reconnectAttempts ]

SocketBudget == socketPrev.n < MaxSocketEvents

SocketUnchanged ==
    UNCHANGED << storeVars, bufferVars, workerVars, camVars, lastWrite,
                 addCount, callVars, mapVars, gestureVars, colorVars,
                 runVars, viewVars, realtimePrev, swCache, swCall,
                 swWork >>

\* connect(): ws = new WebSocket(wsUrl)
Connect(s) ==
    [ s EXCEPT !.sockets = Append(@, "CONNECTING"), !.ws = Len(s.sockets) + 1 ]

\* the middleware on 'realtime/connect'
ConnectAction ==
    /\ SocketBudget
    /\ Len(socket.sockets) < MaxSockets
    /\ socket' = IF socket.ws = 0 \/ socket.sockets[socket.ws] = "CLOSED"
                 THEN Connect(socket) ELSE socket
    /\ socketPrev' = SocketSeen("connect", 0)
    /\ UNCHANGED realtime
    /\ SocketUnchanged

\* the middleware on 'realtime/disconnect'
DisconnectAction ==
    /\ SocketBudget
    /\ socket' = IF socket.ws # 0
                 THEN [ socket EXCEPT !.sockets[socket.ws] = "CLOSING",
                                      !.ws = 0 ]
                 ELSE socket
    /\ socketPrev' = SocketSeen("disconnect", 0)
    /\ UNCHANGED realtime
    /\ SocketUnchanged

\* ws.onopen of the i-th WebSocket
OnOpen ==
    /\ SocketBudget
    /\ \E i \in 1..Len(socket.sockets) :
          /\ socket.sockets[i] = "CONNECTING"
          /\ socket' = [ socket EXCEPT !.sockets[i] = "OPEN",
                                       !.reconnectAttempts = 0 ]
          /\ realtime' = RealtimeReducer(realtime,
                            [ type |-> "realtime/setConnectionStatus",
                              payload |-> TRUE ], now, 0)
          /\ socketPrev' = SocketSeen("open", i)
    /\ SocketUnchanged

\* ws.onerror of the i-th WebSocket
OnError ==
    /\ SocketBudget
    /\ \E i \in 1..Len(socket.sockets) :
          /\ socket.sockets[i] \in { "CONNECTING", "OPEN" }
          /\ realtime' =
                IF socket.reconnectAttempts > 0
                THEN RealtimeReducer(realtime,
                        [ type |-> "realtime/addAlert",
                          payload |-> [ severity |-> "warning",
                                        message |-> "connection lost",
                                        timestamp |-> now ] ], now, 0)
                ELSE realtime
          /\ socketPrev' = SocketSeen("error", i)
    /\ UNCHANGED socket
    /\ SocketUnchanged

\* ws.onclose of the i-th WebSocket: the connection failed, was lost, or
\* was closed by disconnect
OnClose ==
    /\ SocketBudget
    /\ \E i \in 1..Len(socket.sockets) :
          /\ socket.sockets[i] \in { "CONNECTING", "OPEN", "CLOSING" }
          /\ LET down == RealtimeReducer(realtime,
                            [ type |-> "realtime/setConnectionStatus",
                              payload |-> FALSE ], now, 0)
                 retry == /\ socket.reconnectAttempts > 0
                          /\ socket.reconnectAttempts < maxReconnectAttempts
                 giveUp == /\ ~retry
                           /\ socket.reconnectAttempts >= maxReconnectAttempts
             IN  /\ socket' =
                       [ socket EXCEPT
                           !.sockets[i] = "CLOSED",
                           !.ws = 0,
                           !.reconnectAttempts = IF retry THEN @ + 1 ELSE @,
                           !.timers = IF retry THEN @ + 1 ELSE @ ]
                 /\ realtime' =
                       IF giveUp
                       THEN RealtimeReducer(down,
                               [ type |-> "realtime/addAlert",
                                 payload |-> [ severity |-> "info",
                                     message |-> "Real-time data unavailable",
                                     timestamp |-> now ] ], now, 0)
                       ELSE down
          /\ socketPrev' = SocketSeen("close", i)
    /\ SocketUnchanged

\* the callback of a reconnect timer: connect()
ReconnectTimerFires ==
    /\ SocketBudget
    /\ socket.timers > 0
    /\ Len(socket.sockets) < MaxSockets
    /\ socket' = Connect([ socket EXCEPT !.timers = @ - 1 ])
    /\ socketPrev' = SocketSeen("timer", 0)
    /\ UNCHANGED realtime
    /\ SocketUnchanged

InitSocket == InitCommon /\ spatialAPI = TRUE

\* No reconnect timer is ever pending (onclose finds reconnectAttempts 0 in
\* every run), so ReconnectTimerFires has no step to take and is left out.
NextSocket ==
    \/ ConnectAction
    \/ DisconnectAction
    \/ OnOpen
    \/ OnError
    \/ OnClose

SpecSocket == InitSocket /\ [][NextSocket]_vars

(***************************************************************************)
(* SpecCache: the service worker's handling of API GET requests, of sync   *)
(* events and of the CLEAR_CACHE message.                                  *)
(*                                                                         *)
(* A path is the sequence of its characters, so that startsWith is the     *)
(* prefix test on sequences.  A request is a GET identified by its URL:    *)
(* the pathname and the search.  The network answers a fetch with an ok    *)
(* response, with a response that is not ok, or not at all (the fetch      *)
(* rejects).                                                               *)
(*                                                                         *)
(* The handlers are async functions: a call runs up to its next await and  *)
(* goes on when the awaited promise settles, and the calls of other        *)
(* events run in between.  swWork.runs holds the calls under way, each     *)
(* with the await it stands at (pc); one step takes one call from one      *)
(* await to the next.  cache.put is taken to have written when it is       *)
(* called, and caches.delete to have deleted when caches.keys settles.     *)
(*                                                                         *)
(* swCache is what the cache named RUNTIME_CACHE_NAME holds.  A Cache      *)
(* object a call got from caches.open stays usable after caches.delete,    *)
(* but is no longer the cache of that name: swWork.detached holds what     *)
(* such objects hold, and a call's field cache says which object it has.   *)
(***************************************************************************)
API_V1 == << "/", "a", "p", "i", "/", "v", "1", "/" >>
DATA == << "d", "a", "t", "a", "/" >>
MARKET_DATA == << "m", "a", "r", "k", "e", "t", "-", "d", "a", "t", "a", "/" >>
COMPANIES == << "c", "o", "m", "p", "a", "n", "i", "e", "s" >>
SECTORS == << "s", "e", "c", "t", "o", "r", "s" >>
STATES == << "s", "t", "a", "t", "e", "s" >>
OVERVIEW == << "o", "v", "e", "r", "v", "i", "e", "w" >>
OHLCV == << "o", "h", "l", "c", "v" >>
SPATIAL == << "s", "p", "a", "t", "i", "a", "l" >>
COMPLETE == << "c", "o", "m", "p", "l", "e", "t", "e" >>
BULK == << "/", "b", "u", "l", "k" >>
SLASH == << "/" >>
AAPL == << "A", "A", "P", "L" >>
HEALTH == << "h", "e", "a", "l", "t", "h" >>

\* The strategies in the order of Object.entries(API_CACHE_STRATEGIES).
StrategyNames == << "CACHE_FIRST", "NETWORK_FIRST", "STALE_WHILE_REVALIDATE" >>

API_CACHE_STRATEGIES ==
    [ CACHE_FIRST |-> << API_V1 \o DATA \o COMPANIES,
                         API_V1 \o DATA \o SECTORS,
                         API_V1 \o DATA \o STATES >>,
      NETWORK_FIRST |-> << API_V1 \o MARKET_DATA \o OVERVIEW,
                           API_V1 \o MARKET_DATA \o OHLCV,
                           API_V1 \o SPATIAL >>,
      STALE_WHILE_REVALIDATE |-> << API_V1 \o DATA \o COMPANIES \o SLASH,
                                    API_V1 \o DATA \o COMPLETE \o BULK >> ]

\* String.prototype.startsWith
StartsWith(s, p) == Len(p) <= Len(s) /\ SubSeq(s, 1, Len(p)) = p

\* patterns.some(pattern => pathname.startsWith(pattern))
SomePattern(patterns, pathname) ==
    \E i \in 1..Len(patterns) : StartsWith(pathname, patterns[i])

\* Variant: the strategies are tried from the last one to the first.
StrategyForLastFirst(pathname) ==
    LET hits == { i \in 1..Len(StrategyNames) :
                    SomePattern(API_CACHE_STRATEGIES[StrategyNames[i]], pathname) }
    IN  IF hits = { } THEN "NETWORK_FIRST"
        ELSE StrategyNames[CHOOSE i \in hits : \A j \in hits : j <= i]

\* handleAPIRequest: the first strategy, in the order of the object's
\* entries, one of whose patterns the path starts with; NETWORK_FIRST when
\* there is none.
StrategyFor(pathname) ==
    LET hits == { i \in 1..Len(StrategyNames) :
                    SomePattern(API_CACHE_STRATEGIES[StrategyNames[i]], pathname) }
    IN  IF hits = { } THEN "NETWORK_FIRST"
        ELSE StrategyNames[CHOOSE i \in hits : \A j \in hits : i <= j]

\* ok: an ok response under 1MB or without content-length; okLarge: an ok
\* response of 1MB or more; notOk: a response that is not ok; rejected: the
\* fetch fails.
NetworkOutcomes == { "ok", "okLarge", "notOk", "rejected" }

IsOk(network) == network \in { "ok", "okLarge" }

Request(pathname, search) == [ pathname |-> pathname, search |-> search ]

LocatedSearch == "?has_location=true&limit=1000"

\* criticalEndpoints of syncMarketData
criticalEndpoints ==
    << Request(API_V1 \o MARKET_DATA \o OVERVIEW, ""),
       Request(API_V1 \o DATA \o COMPANIES, LocatedSearch) >>

\* The Cache object a call holds: none, or << h >> where h is NamedCache
\* for the cache now named RUNTIME_CACHE_NAME and k >= 1 for the k-th
\* detached one.
NamedCache == 0
NoCache == << >>
Named == << NamedCache >>

\* A call of fn for request, standing at the await pc.
Run(fn, request, pc) ==
    [ fn |-> fn, strategy |-> "none", request |-> request, pc |-> pc,
      cache |-> NoCache, answer |-> "none", left |-> << >> ]

At(run, pc) == [ run EXCEPT !.pc = pc ]

Done(run) == At(run, "done")

\* What a call does from one await to the next: the call as it stands
\* then, the Cache object it puts its request into (NoCache: no put), and
\* the response it returns ("none": not yet, or already returned).
Effect(next, put, served) == [ next |-> next, put |-> put, served |-> served ]

\* updateCacheInBackground: fetch(request), and when the response is ok,
\* caches.open and cache.put
UpdateCacheInBackground(run, network) ==
    CASE run.pc = "fetch" ->
             IF IsOk(network) THEN Effect(At(run, "open"), NoCache, "none")
             ELSE Effect(Done(run), NoCache, "none")
      [] run.pc = "open" -> Effect(Done(run), Named, "none")

\* cacheFirst, named being what caches.match finds.  The cached response
\* is served when there is one, and updateCacheInBackground fetches the
\* request again.
CacheFirst(named, run, network) ==
    CASE run.pc = "match" ->
             IF run.request \in named
             THEN Effect([ run EXCEPT !.fn = "updateCacheInBackground",
                                      !.pc = "fetch" ], NoCache, "cache")
             ELSE Effect(At(run, "fetch"), NoCache, "none")
      [] run.pc = "fetch" ->
             IF network = "rejected" THEN Effect(Done(run), NoCache, "error")
             ELSE IF IsOk(network)
             THEN Effect(At(run, "open"), NoCache, "none")
             ELSE Effect(Done(run), NoCache, "network")
      [] run.pc = "open" -> Effect(Done(run), Named, "network")

\* networkFirst: an ok response is cached unless it is 1MB or larger; when
\* the fetch rejects, the cached response or the offline response is served.
NetworkFirst(named, run, network) ==
    CASE run.pc = "fetch" ->
             IF network = "rejected"
             THEN Effect(At(run, "match"), NoCache, "none")
             ELSE IF IsOk(network)
             THEN Effect([ run EXCEPT !.pc = "open", !.answer = network ],
                         NoCache, "none")
             ELSE Effect(Done(run), NoCache, "network")
      [] run.pc = "open" ->
             Effect(Done(run),
                    IF run.answer = "ok" THEN Named ELSE NoCache,
                    "network")
      [] run.pc = "match" ->
             Effect(Done(run), NoCache,
                    IF run.request \in named THEN "cache" ELSE "offline")

\* staleWhileRevalidate, held being what the call's Cache object holds.
\* The fetch starts when cache.match has settled; the call awaits it
\* (pc "fetch") when nothing was cached, and has returned the cached
\* response (pc "revalidate") otherwise.
StaleWhileRevalidate(held, run, network) ==
    CASE run.pc = "open" ->
             Effect([ run EXCEPT !.pc = "match", !.cache = Named ],
                    NoCache, "none")
      [] run.pc = "match" ->
             IF run.request \in held
             THEN Effect(At(run, "revalidate"), NoCache, "cache")
             ELSE Effect(At(run, "fetch"), NoCache, "none")
      [] run.pc = "fetch" ->
             Effect(Done(run),
                    IF IsOk(network) THEN run.cache ELSE NoCache,
                    IF network = "rejected" THEN "offline" ELSE "network")
      [] run.pc = "revalidate" ->
             Effect(Done(run),
                    IF IsOk(network) THEN run.cache ELSE NoCache, "none")

\* syncMarketData: caches.open, then for each endpoint in turn the awaited
\* fetch and, when the response is ok, the awaited cache.put.  A fetch that
\* rejects is caught inside the loop, which goes on with the next endpoint.
SyncMarketData(run, network) ==
    LET next == IF run.left = << >> THEN Done(run)
                ELSE [ run EXCEPT !.pc = "fetch",
                                  !.request = Head(run.left),
                                  !.left = Tail(run.left) ]
    IN  CASE run.pc = "open" ->
                 Effect([ run EXCEPT !.pc = "fetch", !.cache = Named,
                                     !.request = criticalEndpoints[1],
                                     !.left = Tail(criticalEndpoints) ],
                        NoCache, "none")
          [] run.pc = "fetch" ->
                 IF IsOk(network)
                 THEN Effect(At(run, "put"), run.cache, "none")
                 ELSE Effect(next, NoCache, "none")
          [] run.pc = "put" -> Effect(next, NoCache, "none")

\* The switch of handleAPIRequest: the call of the strategy's function, up
\* to its first await.
HandleAPIRequest(request) ==
    LET strategy == StrategyFor(request.pathname)
        run == CASE strategy = "CACHE_FIRST" ->
                        Run("cacheFirst", request, "match")
                 [] strategy = "NETWORK_FIRST" ->
                        Run("networkFirst", request, "fetch")
                 [] strategy = "STALE_WHILE_REVALIDATE" ->
                        Run("staleWhileRevalidate", request, "open")
                 [] OTHER -> Run("networkFirst", request, "fetch")
    IN  [ run EXCEPT !.strategy = strategy ]

\* The API paths requested.
ApiPaths ==
    { API_V1 \o DATA \o COMPANIES,
      API_V1 \o DATA \o COMPANIES \o SLASH \o AAPL,
      API_V1 \o DATA \o SECTORS,
      API_V1 \o DATA \o COMPLETE \o BULK,
      API_V1 \o DATA \o COMPLETE,
      API_V1 \o MARKET_DATA \o OVERVIEW,
      API_V1 \o MARKET_DATA \o OHLCV \o SLASH \o AAPL,
      API_V1 \o HEALTH }

\* The API requests made: the paths without a search, and the located
\* companies.
ApiRequests ==
    { Request(p, "") : p \in ApiPaths }
        \cup { Request(API_V1 \o DATA \o COMPANIES, LocatedSearch) }

SwUnchanged ==
    UNCHANGED << storeVars, bufferVars, workerVars, camVars, callVars,
                 lastWrite, addCount, mapVars, gestureVars, colorVars,
                 runVars, viewVars, socket, socketPrev, realtime,
                 realtimePrev >>

SwBudget == swWork.events < MaxSwEvents

\* An event whose listener starts the call run.
SwStart(run) ==
    swWork' = [ swWork EXCEPT !.runs = Append(@, run), !.events = @ + 1 ]

\* An event whose listener starts nothing.
SwIgnored == swWork' = [ swWork EXCEPT !.events = @ + 1 ]

\* The response of a call, as swCall has it.
Served(run, served) ==
    [ strategy |-> run.strategy, handler |-> run.fn,
      path |-> run.request.pathname, served |-> served ]

\* What the Cache object of a call that holds one holds.
CacheOf(cache) ==
    IF cache = NoCache THEN { }
    ELSE IF cache = Named THEN swCache ELSE swWork.detached[cache[1]]

\* The i-th call goes on from its await with the effect r.
Resume(i, r) ==
    LET run == swWork.runs[i]
        runs == IF r.next.pc = "done"
                THEN SubSeq(swWork.runs, 1, i - 1)
                         \o SubSeq(swWork.runs, i + 1, Len(swWork.runs))
                ELSE [ swWork.runs EXCEPT ![i] = r.next ]
    IN  /\ swCache' = IF r.put = Named
                      THEN swCache \cup { run.request } ELSE swCache
        /\ swWork' = [ swWork EXCEPT
                         !.runs = runs,
                         !.detached =
                             IF r.put # NoCache /\ r.put # Named
                             THEN [ @ EXCEPT ![r.put[1]] =
                                               @ \cup { run.request } ]
                             ELSE @ ]
        /\ swCall' = IF r.served = "none" THEN swCall
                     ELSE Served(run, r.served)
        /\ SwUnchanged

\* The fetch listener for a GET request whose path starts with "/api/":
\* event.respondWith(handleAPIRequest(request)).
FetchAPIRequest ==
    \E request \in ApiRequests :
        /\ SwBudget
        /\ StartsWith(request.pathname, << "/", "a", "p", "i", "/" >>)
        /\ SwStart(HandleAPIRequest(request))
        /\ swCall' = Served(HandleAPIRequest(request), "pending")
        /\ UNCHANGED swCache
        /\ SwUnchanged

\* A call of cacheFirst goes on: caches.match, the fetch or caches.open
\* has settled.
CacheFirstResumes ==
    \E i \in 1..Len(swWork.runs), network \in NetworkOutcomes :
        /\ swWork.runs[i].fn = "cacheFirst"
        /\ Resume(i, CacheFirst(swCache, swWork.runs[i], network))

UpdateCacheInBackgroundResumes ==
    \E i \in 1..Len(swWork.runs), network \in NetworkOutcomes :
        /\ swWork.runs[i].fn = "updateCacheInBackground"
        /\ Resume(i, UpdateCacheInBackground(swWork.runs[i], network))

NetworkFirstResumes ==
    \E i \in 1..Len(swWork.runs), network \in NetworkOutcomes :
        /\ swWork.runs[i].fn = "networkFirst"
        /\ Resume(i, NetworkFirst(swCache, swWork.runs[i], network))

StaleWhileRevalidateResumes ==
    \E i \in 1..Len(swWork.runs), network \in NetworkOutcomes :
        /\ swWork.runs[i].fn = "staleWhileRevalidate"
        /\ Resume(i, StaleWhileRevalidate(CacheOf(swWork.runs[i].cache),
                                          swWork.runs[i], network))

\* The 'sync' listener calls syncMarketData() for the tag
\* 'background-sync-market-data' and the 'periodicsync' listener for the tag
\* 'market-data-sync'; neither does anything for another tag.
SyncTags == { "background-sync-market-data", "market-data-sync" }

SyncEvent ==
    \E type \in { "sync", "periodicsync" }, tag \in SyncTags :
        /\ SwBudget
        /\ IF \/ type = "sync" /\ tag = "background-sync-market-data"
              \/ type = "periodicsync" /\ tag = "market-data-sync"
           THEN SwStart(Run("syncMarketData", criticalEndpoints[1], "open"))
           ELSE SwIgnored
        /\ UNCHANGED << swCache, swCall >>
        /\ SwUnchanged

\* A call of syncMarketData goes on: caches.open, the fetch of an endpoint
\* or the cache.put of its response has settled.
SyncMarketDataResumes ==
    \E i \in 1..Len(swWork.runs), network \in NetworkOutcomes :
        /\ swWork.runs[i].fn = "syncMarketData"
        /\ Resume(i, SyncMarketData(swWork.runs[i], network))

\* The 'message' listener: clearAllCaches() for CLEAR_CACHE; the other
\* types write no cache.
ClientMessageTypes == { "CLEAR_CACHE", "GET_CACHE_STATS", "SKIP_WAITING" }

MessageEvent ==
    \E type \in ClientMessageTypes :
        /\ SwBudget
        /\ IF type = "CLEAR_CACHE"
           THEN SwStart(Run("clearAllCaches", criticalEndpoints[1], "keys"))
           ELSE SwIgnored
        /\ UNCHANGED << swCache, swCall >>
        /\ SwUnchanged

\* clearAllCaches after caches.keys(): caches.delete of every cache.  The
\* calls that hold the Cache object of the runtime cache keep it, detached.
ClearAllCaches ==
    \E i \in 1..Len(swWork.runs) :
        /\ swWork.runs[i].fn = "clearAllCaches"
        /\ LET rest == SubSeq(swWork.runs, 1, i - 1)
                           \o SubSeq(swWork.runs, i + 1, Len(swWork.runs))
               held == \E j \in 1..Len(rest) : rest[j].cache = Named
               detached == IF held THEN Append(swWork.detached, swCache)
                           ELSE swWork.detached
           IN  /\ swCache' = { }
               /\ swWork' =
                    [ swWork EXCEPT
                        !.detached = detached,
                        !.runs =
                            [ j \in 1..Len(rest) |->
                                IF rest[j].cache = Named
                                THEN [ rest[j] EXCEPT
                                         !.cache = << Len(detached) >> ]
                                ELSE rest[j] ] ]
        /\ UNCHANGED swCall
        /\ SwUnchanged

InitCache == InitCommon /\ spatialAPI = TRUE

NextCache ==
    \/ FetchAPIRequest
    \/ CacheFirstResumes
    \/ UpdateCacheInBackgroundResumes
    \/ NetworkFirstResumes
    \/ StaleWhileRevalidateResumes
    \/ SyncEvent
    \/ SyncMarketDataResumes
    \/ MessageEvent
    \/ ClearAllCaches

SpecCache == InitCache /\ [][NextCache]_vars

----------------------------------------------------------------------------
(* SpecRealtime: the reducers of the realtime slice, dispatched on the      *)
(* store one by one or by the socket's message handler.                    *)

\* the dispatches at which every reducer and the clock take turns
RealtimeInterleaved ==
    realtimePrev.n < MaxFreshOps \/ realtimePrev.n >= AlertPrefill

RealtimeBudget == realtimePrev.n < AlertPrefill + MaxFreshOps

RealtimeUnchanged ==
    UNCHANGED << storeVars, bufferVars, workerVars, camVars, lastWrite,
                 addCount, callVars, mapVars, gestureVars, colorVars,
                 runVars, viewVars, socket, socketPrev, swCache, swCall,
                 swWork >>

\* store.dispatch(action) as far as the realtime slice goes
RealtimeDispatch(op, action, random) ==
    /\ RealtimeBudget
    /\ realtime' = RealtimeReducer(realtime, action, now, random)
    /\ realtimePrev' = [ op |-> op, n |-> realtimePrev.n + 1 ]
    /\ RealtimeUnchanged

\* Date.now() moves on between two dispatches
RealtimeTick ==
    /\ RealtimeInterleaved
    /\ RealtimeBudget
    /\ now < MaxClock
    /\ now' = now + 1
    /\ UNCHANGED << companies, hoveredId, selectedCompanies, selectionStats,
                    selectionHistory, isSelecting, bufferVars, workerVars,
                    camVars, callVars, lastWrite, addCount, mapVars,
                    gestureVars, colorVars, viewVars, netVars, runVars >>

\* dispatch(addAlert(payload)); the random part of the id differs from one
\* dispatch to the next
AddAlertAction ==
    /\ RealtimeBudget
    /\ RealtimeDispatch("addAlert",
                        [ type |-> "realtime/addAlert",
                          payload |-> [ severity |-> "info",
                                        message |-> "price moved",
                                        timestamp |-> now ] ],
                        realtimePrev.n + 1)

LatencyValues == { 120, HIGH_LATENCY, HIGH_LATENCY + 1000 }

\* dispatch(updateConnectionQuality({ latency }))
UpdateConnectionQualityAction ==
    /\ RealtimeInterleaved
    /\ \E latency \in LatencyValues :
          RealtimeDispatch("updateConnectionQuality",
                           [ type |-> "realtime/updateConnectionQuality",
                             payload |-> [ latency |-> latency ] ], 0)

SystemStatusPayloads ==
    { [ status |-> "healthy" ],
      [ status |-> "degraded", message |-> "feed is slow" ],
      [ status |-> "degraded", message |-> "" ],
      [ status |-> "offline", message |-> "feed is down" ] }

\* dispatch(updateSystemStatus(payload))
UpdateSystemStatusAction ==
    /\ RealtimeInterleaved
    /\ \E payload \in SystemStatusPayloads :
          RealtimeDispatch("updateSystemStatus",
                           [ type |-> "realtime/updateSystemStatus",
                             payload |-> payload ], 0)

\* ids handed to removeAlert and markAlertAsRead: the id of the newest
\* alert, the ids the connection and system alerts of this instant have,
\* and an id no alert has
AlertIds ==
    { realtime.alerts[i].id : i \in { k \in { 1 } : k <= Len(realtime.alerts) } }
        \cup { << "connection", now >>, << "system", now >>,
               << "alert", now, 0 >> }

\* dispatch(removeAlert(id))
RemoveAlertAction ==
    /\ RealtimeInterleaved
    /\ \E id \in AlertIds :
          RealtimeDispatch("removeAlert",
                           [ type |-> "realtime/removeAlert",
                             payload |-> id ], 0)

\* dispatch(markAlertAsRead(id))
MarkAlertAsReadAction ==
    /\ RealtimeInterleaved
    /\ \E id \in AlertIds :
          RealtimeDispatch("markAlertAsRead",
                           [ type |-> "realtime/markAlertAsRead",
                             payload |-> id ], 0)

\* dispatch(clearAlerts())
ClearAlertsAction ==
    /\ RealtimeInterleaved
    /\ RealtimeDispatch("clearAlerts", [ type |-> "realtime/clearAlerts" ], 0)

\* dispatch(markAllAlertsAsRead())
MarkAllAlertsAsReadAction ==
    /\ RealtimeInterleaved
    /\ RealtimeDispatch("markAllAlertsAsRead",
                        [ type |-> "realtime/markAllAlertsAsRead" ], 0)

\* dispatch(setConnectionStatus(connected))
SetConnectionStatusAction ==
    /\ RealtimeInterleaved
    /\ \E connected \in BOOLEAN :
          RealtimeDispatch("setConnectionStatus",
                           [ type |-> "realtime/setConnectionStatus",
                             payload |-> connected ], 0)

\* dispatch(updateLatency(latency))
UpdateLatencyAction ==
    /\ RealtimeInterleaved
    /\ \E latency \in { 0, 120 } :
          RealtimeDispatch("updateLatency",
                           [ type |-> "realtime/updateLatency",
                             payload |-> latency ], 0)

SubscriptionTickers == { "A", "B" }

\* one dispatch of useDataSubscriptions.subscribe
AddSubscriptionAction ==
    /\ RealtimeInterleaved
    /\ \E ticker \in SubscriptionTickers :
          RealtimeDispatch("addSubscription",
                           [ type |-> "realtime/addSubscription",
                             payload |-> ticker ], 0)

\* one dispatch of useDataSubscriptions.unsubscribe
RemoveSubscriptionAction ==
    /\ RealtimeInterleaved
    /\ \E ticker \in SubscriptionTickers :
          RealtimeDispatch("removeSubscription",
                           [ type |-> "realtime/removeSubscription",
                             payload |-> ticker ], 0)

\* dispatch(batchAddSubscriptions(tickers))
BatchAddSubscriptionsAction ==
    /\ RealtimeInterleaved
    /\ RealtimeDispatch("batchAddSubscriptions",
                        [ type |-> "realtime/batchAddSubscriptions",
                          payload |-> << "A", "B", "A" >> ], 0)

\* dispatch(batchRemoveSubscriptions(tickers))
BatchRemoveSubscriptionsAction ==
    /\ RealtimeInterleaved
    /\ RealtimeDispatch("batchRemoveSubscriptions",
                        [ type |-> "realtime/batchRemoveSubscriptions",
                          payload |-> << "B", "Z" >> ], 0)

\* useDataSubscriptions.unsubscribeFromAll
ClearSubscriptionsAction ==
    /\ RealtimeInterleaved
    /\ RealtimeDispatch("clearSubscriptions",
                        [ type |-> "realtime/clearSubscriptions" ], 0)

PriceUpdate(ticker, price, timestamp) ==
    [ ticker |-> ticker, price |-> price, change |-> 1, changePercent |-> 2,
      volume |-> 300, timestamp |-> timestamp ]

\* the arrays handed to batchPriceUpdates: none, two tickers, one ticker
\* twice
PriceUpdateBatches ==
    { << >>,
      << PriceUpdate("A", 10, 5), PriceUpdate("B", 20, 3) >>,
      << PriceUpdate("A", 11, 4), PriceUpdate("A", 12, 2) >> }

\* dispatch(setLastUpdate(timestamp))
SetLastUpdateAction ==
    /\ RealtimeInterleaved
    /\ RealtimeDispatch("setLastUpdate",
                        [ type |-> "realtime/setLastUpdate", payload |-> 7 ],
                        0)

\* dispatch(addPriceUpdate(update))
AddPriceUpdateAction ==
    /\ RealtimeInterleaved
    /\ \E ticker \in SubscriptionTickers :
          RealtimeDispatch("addPriceUpdate",
                           [ type |-> "realtime/addPriceUpdate",
                             payload |-> PriceUpdate(ticker, 10, 5) ], 0)

\* dispatch(batchPriceUpdates(updates))
BatchPriceUpdatesAction ==
    /\ RealtimeInterleaved
    /\ \E updates \in PriceUpdateBatches :
          RealtimeDispatch("batchPriceUpdates",
                           [ type |-> "realtime/batchPriceUpdates",
                             payload |-> updates ], 0)

\* dispatch(clearPriceUpdates())
ClearPriceUpdatesAction ==
    /\ RealtimeInterleaved
    /\ RealtimeDispatch("clearPriceUpdates",
                        [ type |-> "realtime/clearPriceUpdates" ], 0)

\* The messages of the socket: data holds the fields of message.data the
\* handler reads; latency 0 stands for a status without latency, and array
\* says whether the data of a batch is an array.
WebSocketMessage(type, timestamp, latency, updates, array) ==
    [ type |-> type, timestamp |-> timestamp, latency |-> latency,
      updates |-> updates, array |-> array ]

WebSocketMessages ==
    { WebSocketMessage("price_update", 5, 0, << PriceUpdate("A", 10, 0) >>,
                       FALSE),
      WebSocketMessage("market_alert", 5, 0, << >>, FALSE),
      WebSocketMessage("system_status", 5, 0, << >>, FALSE),
      WebSocketMessage("system_status", 5, 120, << >>, FALSE),
      WebSocketMessage("batch_update", 5, 0,
                       << PriceUpdate("A", 11, 4), PriceUpdate("B", 20, 3) >>,
                       TRUE),
      WebSocketMessage("batch_update", 5, 0, << >>, FALSE),
      WebSocketMessage("heartbeat", 5, 0, << >>, FALSE) }

\* The actions handleWebSocketMessage dispatches for the message, in order:
\* the one of the message's type, if any, and recordMetrics.
MessageDispatches(message) ==
    (CASE message.type = "price_update" ->
              << [ type |-> "realtime/addPriceUpdate",
                   payload |-> [ message.updates[1] EXCEPT
                                   !.timestamp = message.timestamp ] ] >>
       [] message.type = "market_alert" ->
              << [ type |-> "realtime/addAlert",
                   payload |-> [ severity |-> "warning",
                                 message |-> "price moved",
                                 timestamp |-> message.timestamp,
                                 affectedTickers |-> << "A" >> ] ] >>
       [] message.type = "system_status" ->
              << [ type |-> "realtime/updateLatency",
                   payload |-> message.latency ] >>
       [] message.type = "batch_update" /\ message.array ->
              << [ type |-> "realtime/batchPriceUpdates",
                   payload |-> message.updates ] >>
       [] OTHER -> << >>)
        \o << [ type |-> "realtime/recordMetrics" ] >>

RECURSIVE ReduceAll(_, _, _, _, _)
ReduceAll(state, actions, i, clock, random) ==
    IF i > Len(actions) THEN state
    ELSE ReduceAll(RealtimeReducer(state, actions[i], clock, random),
                   actions, i + 1, clock, random)

\* ws.onmessage: handleWebSocketMessage(message, store)
HandleWebSocketMessage ==
    /\ RealtimeInterleaved
    /\ RealtimeBudget
    /\ \E message \in WebSocketMessages :
          /\ realtime' = ReduceAll(realtime, MessageDispatches(message), 1,
                                   now, realtimePrev.n + 1)
          /\ realtimePrev' = [ op |-> message.type, n |-> realtimePrev.n + 1 ]
          /\ RealtimeUnchanged

InitRealtime == InitCommon /\ spatialAPI = TRUE

NextRealtime ==
    \/ RealtimeTick
    \/ AddAlertAction
    \/ UpdateConnectionQualityAction
    \/ UpdateSystemStatusAction
    \/ RemoveAlertAction
    \/ MarkAlertAsReadAction
    \/ ClearAlertsAction
    \/ MarkAllAlertsAsReadAction
    \/ SetConnectionStatusAction
    \/ UpdateLatencyAction
    \/ AddSubscriptionAction
    \/ RemoveSubscriptionAction
    \/ BatchAddSubscriptionsAction
    \/ BatchRemoveSubscriptionsAction
    \/ ClearSubscriptionsAction
    \/ SetLastUpdateAction
    \/ AddPriceUpdateAction
    \/ BatchPriceUpdatesAction
    \/ ClearPriceUpdatesAction
    \/ HandleWebSocketMessage

SpecRealtime == InitRealtime /\ [][NextRealtime]_vars

----------------------------------------------------------------------------
(* The point buffer with hovering and selection results, and with a        *)
(* snapshot that has more projectable entities than the buffer has slots.  *)

\* a snapshot of MAX_POINTS + extra entities; in every thousand one entity
\* lies outside the projected area and one has no location
LargeSnapshot(extra) ==
    [ i \in 1..(MAX_POINTS + extra) |->
        [ ticker |-> "T" \o ToString(i),
          latitude |-> IF i % 1000 = 7 THEN 60
                       ELSE IF i % 1000 = 8 THEN 0
                       ELSE 25 + (i % 25),
          longitude |-> (i % 60) - 125 ] ]

\* the entities setCompanies makes of the large snapshot
LargeEntities(extra) == SetCompanies(LargeSnapshot(extra), << >>)

\* the data layer's first answer is the large snapshot
LoadLargeSnapshot ==
    /\ companies = << >>
    /\ companies' = LargeEntities(LargeExtra)
    /\ bufOps' = 1
    /\ UNCHANGED << hoveredId, selectedCompanies, selectionStats,
                    selectionHistory, isSelecting, now, bufferVars,
                    workerVars, camVars, callVars, lastWrite, addCount,
                    mapVars, gestureVars, colorVars, viewVars, netVars, bufPrev,
                    histPrev, hoverPrev >>

\* slots of the buffer that hits and selection results are drawn from: the
\* first HitSlots slots and the last one
SlotsTried ==
    { k \in 0..(Len(projectedCoords) - 1) :
        k < HitSlots \/ k = Len(projectedCoords) - 1 }

\* intersects[0].index as the raycaster reports it, -1 for no intersection
RaycastHits == { -1 } \cup SlotsTried

\* handleMouseMove, from the raycast on: what it leaves in hoveredId and
\* stateRefs.lastHoveredIndex
HoverAfter(hit) ==
    IF hit # -1
    THEN IF lastHoveredIndex # hit /\ hit \in DOMAIN indexToTicker
         THEN << indexToTicker[hit], hit >>
         ELSE << hoveredId, lastHoveredIndex >>
    ELSE IF lastHoveredIndex # -1
         THEN << NULL, -1 >>
         ELSE << hoveredId, lastHoveredIndex >>

\* useThreeScene.handleMouseMove; it returns at once while the geometry
\* has no position attribute, which the first updatePoints sets
HandleMouseMove ==
    /\ bufPrev.op # "none"
    /\ BufBudget
    /\ \E hit \in RaycastHits :
          /\ hoveredId' = HoverAfter(hit)[1]
          /\ lastHoveredIndex' = HoverAfter(hit)[2]
          /\ hoverPrev' = [ hit |-> hit, fresh |-> TRUE ]
    /\ bufOps' = BufOpsAfter
    /\ UNCHANGED << companies, selectedCompanies, selectionStats,
                    selectionHistory, isSelecting, now, sceneReady,
                    projectedCoords, indexToTicker, tickerToIndex,
                    pointColors, pointCount, workerVars, camVars, callVars,
                    lastWrite, addCount, mapVars, gestureVars, colorVars,
                    viewVars, netVars, bufPrev, histPrev >>

RECURSIVE SubSeqsOf(_)
\* the subsequences of a short sequence
SubSeqsOf(s) ==
    IF s = << >> THEN { << >> }
    ELSE LET rest == SubSeqsOf(Tail(s))
         IN  rest \cup { << Head(s) >> \o r : r \in rest }

\* ticker lists a selection query over the buffer can deliver: the points
\* of the slots tried, in buffer order
SelectionResults ==
    SubSeqsOf(SelectSeq([ i \in 1..Len(projectedCoords) |->
                            IF i - 1 \in SlotsTried
                            THEN projectedCoords[i].ticker ELSE NULL ],
                        LAMBDA t : t # NULL))

\* onSuccess of a selection query: selection/setSelectedCompanies
ApplySelectionResult ==
    /\ BufBudget
    /\ \E tickers \in SelectionResults :
          /\ SetSelectedCompanies(tickers) # selectedCompanies
          /\ selectedCompanies' = SetSelectedCompanies(tickers)
    /\ bufOps' = BufOpsAfter
    /\ UNCHANGED << companies, hoveredId, selectionStats, selectionHistory,
                    isSelecting, now, bufferVars, workerVars, camVars,
                    callVars, lastWrite, addCount, mapVars, gestureVars,
                    colorVars, viewVars, netVars, bufPrev, histPrev, hoverPrev >>

InitBuf ==
    /\ InitCommon
    /\ spatialAPI = TRUE

NextBuf ==
    \/ SetCompaniesAction
    \/ UpdateCompanyAction
    \/ BatchUpdateCompaniesAction
    \/ LoadLargeSnapshot
    \/ SceneReady
    \/ UpdatePoints
    \/ HandleMouseMove
    \/ ApplySelectionResult

SpecBuf == InitBuf /\ [][NextBuf]_vars

----------------------------------------------------------------------------
(* Camera: useThreeScene.handlePan, handleZoom and unprojectScreenCoords.  *)
(*                                                                         *)
(* The orthographic camera sits at height 50 above the ground plane and    *)
(* looks down.  Its numbers are doubles: handlePan and handleZoom compute  *)
(* on them in the order the source writes, and unprojectScreenCoords       *)
(* follows the operations of the library one by one: the projection matrix *)
(* of updateProjectionMatrix, its inverse, the two applyMatrix4 of         *)
(* Vector3.unproject, and the sub, normalize, multiplyScalar and add of    *)
(* the ray that meets the ground.  The camera record holds the position    *)
(* (x, z), the zoom, the elements of matrixWorld as renderer.render last   *)
(* wrote them (as camera.lookAt wrote them, before the first frame) and    *)
(* the elements of projectionMatrixInverse, which updateProjectionMatrix   *)
(* writes.                                                                 *)

\* CONFIG.MIN_ZOOM is the double 0.8
MIN_ZOOM == Fl([ n |-> SBig(4), d |-> BigOf(5) ])
MAX_ZOOM == QInt(250)
MAX_PAN_DISTANCE == 2000

\* the double 2.5
TwoAndHalf == [ n |-> SBig(5), d |-> BigOf(2) ]

QAbs(a) ==
    CHOOSE r \in
      { [ n |-> [ neg |-> FALSE, mag |-> x.n.mag ], d |-> x.d ] :
          x \in { a } } : TRUE

\* Math.sqrt(newX * newX + newZ * newZ)
DistanceFromCenter(newX, newZ) ==
    FlSqrt(FlAdd(FlMul(newX, newX), FlMul(newZ, newZ)))

\* the target handlePan computes before it applies the bounds
PanTarget(cam, deltaX, deltaY) ==
    CHOOSE r \in
      { [ x |-> FlSub(cam.x, FlMul(deltaX, panSpeed)),
          z |-> FlSub(cam.z, FlMul(deltaY, panSpeed)) ] :
        panSpeed \in { FlDiv(TwoAndHalf, cam.zoom) } } : TRUE

\* the if of handlePan, on the target and its distance from the centre
ApplyPanBounds(cam, newX, newZ, distanceFromCenter, maxDistance) ==
    IF QLeq(distanceFromCenter, maxDistance)
    THEN [ cam EXCEPT !.x = newX, !.z = newZ ]
    ELSE CHOOSE r \in
           { [ cam EXCEPT !.x = FlMul(newX, scale),
                          !.z = FlMul(newZ, scale) ] :
             scale \in { FlDiv(maxDistance, distanceFromCenter) } } : TRUE

\* handlePan
HandlePan(cam, deltaX, deltaY) ==
    CHOOSE r \in
      { CHOOSE w \in
          { ApplyPanBounds(cam, t.x, t.z, distanceFromCenter,
                           QInt(MAX_PAN_DISTANCE)) :
            distanceFromCenter \in { DistanceFromCenter(t.x, t.z) } } : TRUE
        : t \in { PanTarget(cam, deltaX, deltaY) } } : TRUE

\* Vector3.unproject(camera): applyMatrix4(camera.projectionMatrixInverse)
\* and then applyMatrix4(camera.matrixWorld), the matrix as it is stored.
\* The elements of the two matrices that are 0 stand before finite
\* factors.
Unproject(cam, ndcX, ndcY, ndcZ) ==
    With(cam.projectionMatrixInverse,
         LAMBDA e :
    With(FlDiv(QInt(1), e.e15),
         LAMBDA w :
    With([ x |-> FlMul(FlMul(e.e0, ndcX), w),
           y |-> FlMul(FlMul(e.e5, ndcY), w),
           z |-> FlMul(FlAdd(FlMul(e.e10, ndcZ), e.e14), w) ],
         LAMBDA v :
           [ x |-> FlAdd(v.x, cam.matrixWorld.e12),
             y |-> FlAdd(FlAdd(FlMul(cam.matrixWorld.e5, v.y),
                               FlMul(cam.matrixWorld.e9, v.z)),
                         QInt(CameraHeight)),
             z |-> FlAdd(FlAdd(FlMul(cam.matrixWorld.e6, v.y),
                               FlMul(cam.matrixWorld.e10, v.z)),
                         cam.matrixWorld.e14) ])))

\* unprojectScreenCoords: the ground point under a screen position, where
\* the ray from the camera position through the unprojected point meets
\* y = 0.  dir.y is 0 where the unprojected point is level with the
\* camera, and the division by it gives -Infinity.
UnprojectScreenCoords(cam, screenX, screenY) ==
    With(Unproject(cam,
                   FlSub(FlMul(FlDiv(screenX, QInt(ContainerWidth)), QInt(2)),
                         QInt(1)),
                   FlAdd(FlMul(QNeg(FlDiv(screenY, QInt(ContainerHeight))),
                               QInt(2)), QInt(1)),
                   Half),
         LAMBDA vec :
    With(Normalize([ x |-> FlSub(vec.x, cam.x),
                     y |-> FlSub(vec.y, QInt(CameraHeight)),
                     z |-> FlSub(vec.z, cam.z) ]),
         LAMBDA dir :
    With(FlDiv(QInt(-CameraHeight), dir.y),
         LAMBDA distance :
           [ x |-> FlAdd(cam.x, FlMul(dir.x, distance)),
             z |-> FlAdd(cam.z, FlMul(dir.z, distance)) ])))

\* Math.min and Math.max of two doubles: NaN when an operand is NaN
QMin(a, b) ==
    CHOOSE r \in
      { IF IsNaN(x) \/ IsNaN(y) THEN NaN ELSE IF QLeq(x, y) THEN x ELSE y :
          x \in { a }, y \in { b } } : TRUE
QMax(a, b) ==
    CHOOSE r \in
      { IF IsNaN(x) \/ IsNaN(y) THEN NaN ELSE IF QLeq(y, x) THEN x ELSE y :
          x \in { a }, y \in { b } } : TRUE

\* variant of the clamp that has no upper limit
ClampNoMax(value, min, max) == QMax(min, value)

\* THREE.MathUtils.clamp: Math.max(min, Math.min(max, value))
Clamp(value, min, max) == QMax(min, QMin(max, value))

\* camera.zoom + delta * camera.zoom * 0.5
RawZoom(cam, delta) == FlAdd(cam.zoom, FlMul(FlMul(delta, cam.zoom), Half))

\* camera.zoom = newZoom and camera.updateProjectionMatrix()
SetZoom(cam, newZoom) ==
    [ cam EXCEPT !.zoom = newZoom,
                 !.projectionMatrixInverse = ProjectionMatrixInverse(newZoom) ]

\* handleZoom from the assignment of newZoom on, worldPosBefore taken
ZoomFrom(cam, delta, mouseX, mouseY, worldPosBefore) ==
    With(SetZoom(cam, Clamp(RawZoom(cam, delta), MIN_ZOOM, MAX_ZOOM)),
         LAMBDA zoomed :
    With(UnprojectScreenCoords(zoomed, mouseX, mouseY),
         LAMBDA worldPosAfter :
           [ zoomed EXCEPT
               !.x = FlAdd(@, FlSub(worldPosAfter.x, worldPosBefore.x)),
               !.z = FlAdd(@, FlSub(worldPosAfter.z, worldPosBefore.z)) ]))

\* handleZoom
HandleZoom(cam, delta, mouseX, mouseY) ==
    With(UnprojectScreenCoords(cam, mouseX, mouseY),
         LAMBDA worldPosBefore :
           ZoomFrom(cam, delta, mouseX, mouseY, worldPosBefore))

\* One turn of the animation loop, which the effect on sceneReady starts:
\* animate calls renderer.render(scene, camera), and render brings
\* camera.matrixWorld up to date.
Animate ==
    /\ sceneReady
    /\ camera' = UpdateMatrixWorld(camera)
    /\ UNCHANGED << storeVars, bufferVars, workerVars, camOps, camPrev,
                    callVars, lastWrite, addCount, mapVars, gestureVars,
                    colorVars, viewVars, netVars, runVars >>

\* mouse movements (movementX, movementY) and wheel / pinch inputs
PanDeltas == { << -1200, 0 >>, << -960, -1280 >>, << 400, 0 >>, << 0, 320 >> }
ZoomDeltas == { 2, -1, 998 }
ZoomAnchors == { << 400, 300 >>, << 800, 300 >>, << 200, 450 >> }

Pan ==
    /\ camOps < MaxCamOps
    /\ \E d \in PanDeltas :
          \E t \in { PanTarget(camera, QInt(d[1]), QInt(d[2])) } :
             /\ camera' = HandlePan(camera, QInt(d[1]), QInt(d[2]))
             /\ camPrev' = [ op |-> "pan", from |-> camera, target |-> t,
                             outside |-> ~QLeq(DistanceFromCenter(t.x, t.z),
                                               QInt(MAX_PAN_DISTANCE)) ]
    /\ camOps' = camOps + 1
    /\ UNCHANGED << storeVars, bufferVars, workerVars, callVars, lastWrite,
                    addCount,
                    mapVars, gestureVars, colorVars, viewVars, netVars, runVars >>

Zoom ==
    /\ camOps < MaxCamOps
    /\ \E a \in ZoomAnchors :
          \E before \in { UnprojectScreenCoords(camera, QInt(a[1]),
                                                 QInt(a[2])) } :
             \E delta \in ZoomDeltas :
                /\ camera' = ZoomFrom(camera, QInt(delta), QInt(a[1]),
                                      QInt(a[2]), before)
                /\ camPrev' = [ op |-> "zoom", from |-> camera, anchor |-> a,
                                raw |-> RawZoom(camera, QInt(delta)),
                                before |-> before ]
    /\ camOps' = camOps + 1
    /\ UNCHANGED << storeVars, bufferVars, workerVars, callVars, lastWrite,
                    addCount,
                    mapVars, gestureVars, colorVars, viewVars, netVars, runVars >>

InitCam ==
    /\ InitButCamera
    /\ camera = InitCamera
    /\ spatialAPI = TRUE

NextCam ==
    \/ SceneReady
    \/ Animate
    \/ Pan
    \/ Zoom

SpecCam == InitCam /\ [][NextCam]_vars

----------------------------------------------------------------------------
(* Pointer gestures: the listener effect of MapRenderer.                   *)
(*                                                                         *)
(* The effect's handlers close over the selectionMode of the render that   *)
(* installed them and over the locals isSelecting, selectionStart and      *)
(* selectionPoints.  When a dependency of the effect changes, the effect   *)
(* is cleaned up and run again: the new handlers see the current mode and  *)
(* fresh locals.  selectRectangle, selectCircle and selectPolygon are      *)
(* dependencies built from the result of useMutation, whose identity from  *)
(* one render to the next is the library's business, so the effect may     *)
(* run again after any render.  Mouse events are followed in SpecGesture,  *)
(* wheel events in SpecWheel and touch events in SpecTouch.                *)

\* the modes followed; "state" takes the same branches as "lasso"
SelectionModes == { "pan", "rect", "circle", "polygon", "lasso" }

\* clientX / clientY of the pointer events, inside the container
PointerPositions == { << 0, 0 >>, << 800, 600 >> }

\* the raycasts followed: the pointer is over no point
GestureHits == { -1 }

\* the snapshot that arrives, once; it places A at (22, -3), E at (0, 0) and
\* B at (-22, 4)
GestureSnapshot ==
    << [ ticker |-> "A", latitude |-> 41, longitude |-> -74 ],
       [ ticker |-> "C", latitude |-> 0,  longitude |-> -100 ],
       [ ticker |-> "D", latitude |-> 60, longitude |-> -100 ],
       [ ticker |-> "E", latitude |-> 38, longitude |-> -96 ],
       [ ticker |-> "B", latitude |-> 34, longitude |-> -118 ] >>

LoadSnapshot ==
    /\ companies = << >>
    /\ ~SettlePending
    /\ companies' = SetCompanies(GestureSnapshot, << >>)
    /\ UNCHANGED << hoveredId, selectedCompanies, selectionStats,
                    selectionHistory, isSelecting, now, bufferVars,
                    workerVars, camVars, callVars, lastWrite, addCount,
                    mapVars, gestureVars, colorVars, viewVars, netVars, runVars >>

FreshGesture(mode) ==
    [ selectionMode |-> mode, isSelecting |-> FALSE,
      selectionStart |-> << 0, 0 >>, selectionPoints |-> << >>,
      lastTouchPos |-> << 0, 0 >>, lastTouchDistance |-> QInt(0),
      pointsStored |-> FALSE,
      touchStartTime |-> 0 ]

\* what every pointer handler records: the closure it ran in and the store
\* it found
Seen(op) ==
    [ op |-> op,
      n |-> gesturePrev.n + 1,
      mode |-> gesture.selectionMode,
      selecting |-> gesture.isSelecting,
      points |-> Len(gesture.selectionPoints),
      queries |-> Len(mutations) ]

\* renderer.render has run since initScene: matrixWorld has the rotation
\* that camera.lookAt set, whose element 6 is not the 0 of a new object
Rendered == ~IsZero(camera.matrixWorld.e6)

\* the user acts on a drawn map: mouse and touch events are followed from
\* the first rebuild of the point buffer and the first rendered frame on
PointerBudget ==
    /\ bufPrev.op # "none"
    /\ Rendered
    /\ gesturePrev.n < MaxPointerEvents
    /\ ~SettlePending

\* wheel events are followed from the start, before the scene is ready and
\* before the first frame as well, among the first MaxWheelEvents pointer
\* events
WheelBudget ==
    /\ gesturePrev.n < MaxWheelEvents
    /\ ~SettlePending

\* mapSlice.setSelectionMode, dispatched by useSelection.setSelectionMode
SetSelectionModeAction ==
    \E mode \in SelectionModes :
        /\ bufPrev.op # "none"
        /\ ~SettlePending
        /\ selectionMode' = mode
        /\ selectionGeometry' = IF mode = "pan" THEN NoGeometry ELSE selectionGeometry
        /\ UNCHANGED << storeVars, bufferVars, workerVars, camVars, callVars,
                        lastWrite, addCount, gestureVars, colorVars, viewVars, netVars, runVars >>

\* cleanup and re-run of the listener effect after a render
ListenerEffectReruns ==
    /\ gesture # FreshGesture(selectionMode)
    /\ gesture' = FreshGesture(selectionMode)
    /\ UNCHANGED << storeVars, bufferVars, workerVars, camVars, callVars,
                    lastWrite, addCount, mapVars, isDragging, mousePos,
                    gesturePrev, colorVars, viewVars, netVars, runVars >>

\* handlePointerDown for a mouse event
MouseDown ==
    /\ PointerBudget
    /\ \E pos \in PointerPositions :
          IF gesture.selectionMode = "pan"
          THEN /\ isDragging' = TRUE
               /\ UNCHANGED gesture
          ELSE /\ gesture' = [ gesture EXCEPT !.isSelecting = TRUE,
                                              !.selectionStart = pos,
                                              !.selectionPoints = << pos >>,
                                              !.pointsStored = FALSE ]
               /\ UNCHANGED isDragging
    /\ gesturePrev' = Seen("down")
    /\ UNCHANGED << storeVars, bufferVars, workerVars, camVars, callVars,
                    lastWrite, addCount, mapVars, mousePos, colorVars, viewVars, netVars,
                    runVars >>

\* handlePointerMove for a mouse event.  movementX / movementY are the
\* differences from the previous position.  The array dispatched in a
\* setSelectionGeometry payload is the local selectionPoints itself
\* (pointsStored says that it has been dispatched); a later push onto it
\* succeeds or throws according to whether the store froze it, and when it
\* throws the handler ends there.
MouseMove ==
    /\ PointerBudget
    /\ \E pos \in PointerPositions, hit \in GestureHits, frozen \in BOOLEAN :
          LET hover == HoverAfter(hit)
              pushes == gesture.selectionMode = "polygon"
              throws == pushes /\ frozen
              points == IF pushes THEN Append(gesture.selectionPoints, pos)
                        ELSE gesture.selectionPoints
          IN  /\ frozen => /\ pushes /\ gesture.pointsStored
                           /\ gesture.isSelecting /\ ~isDragging
              /\ mousePos' = pos
              /\ hoveredId' = hover[1]
              /\ lastHoveredIndex' = hover[2]
              /\ IF isDragging
                 THEN /\ camera' = HandlePan(camera, QInt(pos[1] - mousePos[1]),
                                             QInt(pos[2] - mousePos[2]))
                      /\ UNCHANGED << gesture, selectionGeometry >>
                 ELSE IF gesture.isSelecting /\ ~throws
                 THEN /\ gesture' = [ gesture EXCEPT
                                        !.selectionPoints = points,
                                        !.pointsStored = @ \/ pushes ]
                      /\ selectionGeometry' =
                            [ type |-> gesture.selectionMode,
                              start |-> gesture.selectionStart,
                              current |-> pos,
                              points |-> IF pushes THEN points ELSE NULL ]
                      /\ UNCHANGED camera
                 ELSE UNCHANGED << camera, gesture, selectionGeometry >>
    /\ gesturePrev' = Seen("move")
    /\ UNCHANGED << companies, selectedCompanies, selectionStats,
                    selectionHistory, isSelecting, now, sceneReady,
                    projectedCoords, indexToTicker, tickerToIndex,
                    pointColors, pointCount, workerVars, camOps, camPrev,
                    callVars, lastWrite, addCount, selectionMode,
                    isDragging, colorVars, viewVars, netVars, runVars >>

\* clientX / clientY and deltaY of the wheel events
WheelPositions == { << 400, 300 >>, << 200, 450 >> }
WheelDeltas == { -100, 100 }

\* the double 0.005
FiveThousandths == Fl([ n |-> SBig(5), d |-> BigOf(1000) ])

\* handleWheel: delta = e.deltaY * -0.005 and handleZoom(delta, e.clientX,
\* e.clientY)
Wheel ==
    /\ WheelBudget
    /\ \E pos \in WheelPositions, deltaY \in WheelDeltas :
          camera' = HandleZoom(camera,
                               FlMul(QInt(deltaY), QNeg(FiveThousandths)),
                               QInt(pos[1]), QInt(pos[2]))
    /\ gesturePrev' = Seen("wheel")
    /\ UNCHANGED << storeVars, bufferVars, workerVars, camOps, camPrev,
                    callVars, lastWrite, addCount, mapVars, gesture,
                    isDragging, mousePos, colorVars, viewVars, netVars,
                    runVars >>

\* the rectangle performSelection hands to selectRectangle
GestureRectangle(startCoords, endCoords) ==
    [ min |-> P2(QMin(startCoords.x, endCoords.x),
                 QMin(startCoords.z, endCoords.z)),
      max |-> P2(QMax(startCoords.x, endCoords.x),
                 QMax(startCoords.z, endCoords.z)) ]

\* the circle performSelection hands to selectCircle: the midpoint, and
\* half of Vector2.distanceTo, which is Math.sqrt(dx * dx + dy * dy)
GestureCircle(startCoords, endCoords) ==
    CHOOSE r \in
      { [ center |-> P2(FlDiv(FlAdd(startCoords.x, endCoords.x), QInt(2)),
                        FlDiv(FlAdd(startCoords.z, endCoords.z), QInt(2))),
          radius |-> FlDiv(FlSqrt(FlAdd(FlMul(dx, dx), FlMul(dy, dy))),
                           QInt(2)) ] :
          dx \in { FlSub(startCoords.x, endCoords.x) },
          dy \in { FlSub(startCoords.z, endCoords.z) } } : TRUE

\* the polygon performSelection hands to selectPolygon
GesturePolygon(selectionPoints) ==
    [ points |-> [ i \in 1..Len(selectionPoints) |->
                     CHOOSE r \in
                       { P2(p.x, p.z) :
                           p \in { UnprojectScreenCoords(camera,
                                      QInt(selectionPoints[i][1]),
                                      QInt(selectionPoints[i][2])) } } : TRUE ] ]

\* variant of the polygon case that evaluates whatever was captured
EvaluatesPolygonAlways(selectionPoints) == TRUE

\* the if of the polygon case of performSelection
EvaluatesPolygon(selectionPoints) == Len(selectionPoints) >= 3

\* the query performSelection makes, or NULL when it makes none.  The
\* function unprojects the start and the end in every mode before its
\* switch; the two values are computed here in the cases that read them.
GestureQuery(pos) ==
    CASE gesture.selectionMode \in { "rect", "circle" } ->
            CHOOSE r \in
              { IF gesture.selectionMode = "rect"
                THEN [ type |-> "rectangle",
                       geometry |-> GestureRectangle(startCoords, endCoords) ]
                ELSE [ type |-> "circle",
                       geometry |-> GestureCircle(startCoords, endCoords) ]
                : startCoords \in { UnprojectScreenCoords(camera,
                                       QInt(gesture.selectionStart[1]),
                                       QInt(gesture.selectionStart[2])) },
                  endCoords \in { UnprojectScreenCoords(camera, QInt(pos[1]),
                                                        QInt(pos[2])) } } : TRUE
      [] gesture.selectionMode = "polygon"
           /\ EvaluatesPolygon(gesture.selectionPoints) ->
            [ type |-> "polygon",
              geometry |-> GesturePolygon(gesture.selectionPoints) ]
      [] OTHER -> [ type |-> NULL ]

\* handlePointerUp for a mouse event, with performSelection
MouseUp ==
    /\ PointerBudget
    /\ \E pos \in PointerPositions :
              IF gesture.isSelecting
              THEN /\ \E query \in { GestureQuery(pos) } :
                        IF query.type # NULL
                        THEN PerformSpatialSelection(query.type,
                                                     query.geometry, "ground")
                        ELSE UNCHANGED << mutations, workerInbox, isSelecting,
                                          selectedCompanies, lastWrite >>
                   /\ selectionGeometry' = NoGeometry
                   /\ gesture' = [ gesture EXCEPT !.isSelecting = FALSE,
                                                  !.selectionPoints = << >>,
                                                  !.pointsStored = FALSE ]
              ELSE UNCHANGED << mutations, workerInbox, isSelecting,
                                selectedCompanies, lastWrite,
                                selectionGeometry, gesture >>
    /\ isDragging' = FALSE
    /\ gesturePrev' = Seen("up")
    /\ UNCHANGED << companies, hoveredId, selectionStats, selectionHistory,
                    now, bufferVars, spatialAPI, workerOutbox, camVars,
                    callVars, addCount, selectionMode, mousePos, colorVars, viewVars, netVars,
                    runVars >>

\* the worker was created
InitGesture ==
    /\ InitCommon
    /\ spatialAPI = TRUE

NextGesture ==
    \/ LoadSnapshot
    \/ SceneReady
    \/ UpdatePoints
    \/ SetSelectionModeAction
    \/ ListenerEffectReruns
    \/ MouseDown
    \/ MouseMove
    \/ MouseUp
    \/ Animate
    \/ MutationResolves
    \/ WorkerRespond
    \/ ReceiveResponse

SpecGesture == InitGesture /\ [][NextGesture]_vars

----------------------------------------------------------------------------
(* Wheel events and the gestures after them.  The wheel listener is        *)
(* installed with the others when MapRenderer mounts, and handleZoom needs *)
(* only the camera, which initScene has made by then: a wheel event is     *)
(* handled before the scene is ready and before the first frame just as    *)
(* after them.  The mouse moves of a gesture are not followed here, so the *)
(* camera moves by handleZoom alone; no snapshot arrives, so the mutation  *)
(* of a query finds no coordinates and resolves without the worker.        *)

InitWheel == InitGesture

NextWheel ==
    \/ SceneReady
    \/ UpdatePoints
    \/ Animate
    \/ Wheel
    \/ SetSelectionModeAction
    \/ ListenerEffectReruns
    \/ MouseDown
    \/ MouseUp
    \/ MutationResolves

SpecWheel == InitWheel /\ [][NextWheel]_vars

----------------------------------------------------------------------------
(* Gestures on a map that shows a selection.                               *)

\* The program after the snapshot was loaded and drawn, rect mode was
\* chosen, the listeners were installed again, a rect gesture from (0, 0)
\* to (800, 600) was made and answered, the given mode was chosen and the
\* listeners were installed once more: a state of SpecGesture.  The camera
\* is the one of the rendered frames; it does not move in SpecShown.
SelectionShown(mode) ==
    \E entities \in { SetCompanies(GestureSnapshot, << >>) } :
    \E buf \in { UpdatePointsBuffer(entities, NULL, {}) } :
    \E cam \in { UpdateMatrixWorld(InitCamera) } :
    \E startCoords \in { UnprojectScreenCoords(cam, QInt(0), QInt(0)) } :
    \E endCoords \in { UnprojectScreenCoords(cam, QInt(800), QInt(600)) } :
    \E request \in
        { [ type |-> "rectangle",
            geometry |-> GestureRectangle(startCoords, endCoords),
            coords |-> buf.coords, units |-> "ground" ] } :
    \E result \in { WorkerCompute(request) } :
        /\ companies = entities
        /\ hoveredId = NULL
        /\ selectedCompanies = SetSelectedCompanies(Tickers(result))
        /\ selectionStats = NoStats
        /\ selectionHistory = << >>
        /\ isSelecting = FALSE
        /\ now = 0
        /\ sceneReady = TRUE
        /\ projectedCoords = buf.coords
        /\ indexToTicker = buf.indexToTicker
        /\ tickerToIndex = buf.tickerToIndex
        /\ pointColors = buf.colors
        /\ pointCount = buf.index
        /\ lastHoveredIndex = -1
        /\ spatialAPI = TRUE
        /\ mutations = << request @@ [ status |-> "settled",
                                       result |-> result ] >>
        /\ workerInbox = << >>
        /\ workerOutbox = << >>
        /\ camera = cam
        /\ selectionMode = mode
        /\ selectionGeometry = NoGeometry
        /\ gesture = FreshGesture(mode)
        /\ isDragging = FALSE
        /\ mousePos = << 0, 0 >>
        /\ lastWrite = [ from |-> 1, latest |-> 1 ]
        /\ bufPrev = [ op |-> "updatePoints", companies |-> entities,
                       hoveredId |-> NULL, selectedCompanies |-> {} ]

\* the modes whose gestures capture vertices
CapturingModes == { "polygon", "lasso" }

\* SelectionShown in a capturing mode, with the count of pointer events
\* started again
InitShown ==
    /\ \E mode \in CapturingModes : SelectionShown(mode)
    /\ gesturePrev = [ op |-> "none", n |-> 0 ]
    /\ geomCall = [ fn |-> "none" ]
    /\ addCount = 0
    /\ camOps = 0
    /\ camPrev = [ op |-> "none" ]
    /\ stateColorMap = << >>
    /\ colorQuery = [ name |-> NULL ]
    /\ colorPrev = << >>
    /\ workerCalls = << >>
    /\ managerCalls = << >>
    /\ bufOps = 0
    /\ histPrev = [ op |-> "none", n |-> 0 ]
    /\ hoverPrev = [ hit |-> -1, fresh |-> FALSE ]
    /\ mapView = InitialMapView
    /\ realtime = [ connected |-> FALSE, latency |-> 0, alerts |-> << >>,
                    subscriptions |-> { }, lastUpdate |-> NoUpdate,
                    priceUpdates |-> << >> ]
    /\ realtimePrev = [ op |-> "none", n |-> 0 ]
    /\ socket = [ ws |-> 0, sockets |-> << >>, reconnectAttempts |-> 0,
                  timers |-> 0 ]
    /\ socketPrev = [ op |-> "none", n |-> 0 ]
    /\ swCache = { }
    /\ swCall = [ strategy |-> "none", handler |-> "none", path |-> << >>,
                 served |-> "none" ]
    /\ swWork = [ runs |-> << >>, detached |-> << >>, events |-> 0 ]
    /\ mapPrev = [ op |-> "none", n |-> 0, from |-> InitialMapView ]

NextShown ==
    \/ UpdatePoints
    \/ ListenerEffectReruns
    \/ MouseDown
    \/ MouseMove
    \/ MouseUp

SpecShown == InitShown /\ [][NextShown]_vars

----------------------------------------------------------------------------
(* Gesture starts by mouse and by touch.                                   *)

\* e.touches of a touchstart: one finger, or two
TouchLists ==
    { << p >> : p \in PointerPositions }
    \cup { << p, q >> : p \in PointerPositions, q \in PointerPositions }

\* touch events are followed among the first MaxTouchEvents pointer events
TouchBudget ==
    /\ PointerBudget
    /\ gesturePrev.n < MaxTouchEvents

\* getTouchDistance
GetTouchDistance(touches) ==
    IF Len(touches) < 2 THEN QInt(0)
    ELSE CHOOSE r \in
           { FlSqrt(FlAdd(FlMul(dx, dx), FlMul(dy, dy))) :
               dx \in { QInt(touches[2][1] - touches[1][1]) },
               dy \in { QInt(touches[2][2] - touches[1][2]) } } : TRUE

\* handlePointerDown for a touchstart
TouchStart ==
    /\ TouchBudget
    /\ \E touches \in TouchLists :
          LET started == [ gesture EXCEPT !.touchStartTime = now,
                                          !.lastTouchPos = touches[1] ]
          IN  IF Len(touches) = 2
              THEN /\ gesture' = [ started EXCEPT
                         !.lastTouchDistance = GetTouchDistance(touches) ]
                   /\ UNCHANGED isDragging
                   /\ gesturePrev' = Seen("touchstart") @@ [ touches |-> 2 ]
              ELSE /\ gesture' = started
                   /\ isDragging' = TRUE
                   /\ gesturePrev' = Seen("touchstart") @@ [ touches |-> 1 ]
    /\ UNCHANGED << storeVars, bufferVars, workerVars, camVars, callVars,
                    lastWrite, addCount, mapVars, mousePos, colorVars, viewVars, netVars,
                    runVars >>

\* the double 0.05
Twentieth == Fl([ n |-> SBig(1), d |-> BigOf(20) ])

\* handlePointerMove for a touchmove.  e.touches holds one finger or two, or
\* none, and then the position is that of e.changedTouches.
TouchMove ==
    /\ TouchBudget
    /\ \E touches \in TouchLists \cup { << >> }, changed \in PointerPositions :
          LET pos == IF touches = << >> THEN changed ELSE touches[1]
          IN  /\ touches # << >> => changed = touches[1]
              /\ mousePos' = pos
              /\ IF Len(touches) = 1 /\ isDragging
                 THEN /\ camera' = HandlePan(camera,
                            FlMul(QInt(pos[1] - gesture.lastTouchPos[1]), Half),
                            FlMul(QInt(pos[2] - gesture.lastTouchPos[2]), Half))
                      /\ gesture' = [ gesture EXCEPT !.lastTouchPos = pos ]
                      /\ UNCHANGED isDragging
                 ELSE IF Len(touches) = 2
                 THEN \E currentDistance \in { GetTouchDistance(touches) } :
                        /\ isDragging' = FALSE
                        /\ camera' =
                              IF QLess(QInt(0), gesture.lastTouchDistance)
                              THEN HandleZoom(camera,
                                     FlMul(FlSub(currentDistance,
                                                 gesture.lastTouchDistance),
                                           Twentieth),
                                     FlDiv(QInt(touches[1][1] + touches[2][1]),
                                           QInt(2)),
                                     FlDiv(QInt(touches[1][2] + touches[2][2]),
                                           QInt(2)))
                              ELSE camera
                        /\ gesture' = [ gesture EXCEPT
                                          !.lastTouchDistance = currentDistance ]
                 ELSE IF Len(touches) = 0
                 THEN /\ isDragging' = FALSE
                      /\ gesture' = [ gesture EXCEPT
                                        !.lastTouchDistance = QInt(0) ]
                      /\ UNCHANGED camera
                 ELSE UNCHANGED << camera, gesture, isDragging >>
    /\ gesturePrev' = Seen("touchmove")
    /\ UNCHANGED << storeVars, bufferVars, workerVars, camOps, camPrev,
                    callVars, lastWrite, addCount, mapVars, colorVars,
                    viewVars, netVars, runVars >>

\* handlePointerUp for a touchend.  touchDuration = Date.now() -
\* touchStartTime, and touchStartTime is 0 until a touchstart sets it.
\* isDraggingRef has just been cleared, so a touch shorter than 200 ms is a
\* tap and runs handleMouseMove on the touch position.
TouchEnd ==
    /\ TouchBudget
    /\ \E hit \in GestureHits :
          LET tap == now - gesture.touchStartTime < 200
              hover == IF tap THEN HoverAfter(hit)
                       ELSE << hoveredId, lastHoveredIndex >>
          IN  /\ hoveredId' = hover[1]
              /\ lastHoveredIndex' = hover[2]
    /\ isDragging' = FALSE
    /\ gesture' = [ gesture EXCEPT !.lastTouchDistance = QInt(0) ]
    /\ gesturePrev' = Seen("touchend")
    /\ UNCHANGED << companies, selectedCompanies, selectionStats,
                    selectionHistory, isSelecting, now, sceneReady,
                    projectedCoords, indexToTicker, tickerToIndex,
                    pointColors, pointCount, workerVars, camVars, callVars,
                    lastWrite, addCount, mapVars, mousePos, colorVars, viewVars, netVars,
                    runVars >>

\* Date.now() at the start: the pages are loaded long after 1970, so the
\* clock is never below the 200 ms of a tap.  The clock stands still in
\* SpecTouch: a touch that ends is as old as the touchstart before it, or
\* as old as the clock when there was none.
InitTouch ==
    /\ InitButCameraAt(PageLoadTime)
    /\ camera = InitCamera
    /\ spatialAPI = TRUE

NextTouch ==
    \/ LoadSnapshot
    \/ SceneReady
    \/ UpdatePoints
    \/ Animate
    \/ SetSelectionModeAction
    \/ ListenerEffectReruns
    \/ MouseDown
    \/ TouchStart
    \/ TouchMove
    \/ TouchEnd

SpecTouch == InitTouch /\ [][NextTouch]_vars


----------------------------------------------------------------------------
(* Claims about the selection pipeline and the selection history.          *)

\* ids of the points in the result of query id
ResultIds(ms, id) == { ms[id].result[i].ticker : i \in 1..Len(ms[id].result) }

\* C1: the selected set is only ever written from the response of the most
\* recently dispatched query; the response of a query that a later dispatch
\* has superseded is never applied.
C1_OnlyLatestQueryApplied == lastWrite.from = lastWrite.latest

\* C2: the selection history never holds more than 50 entries, and adding
\* to a history of 50 drops exactly the entry inserted earliest, keeping the
\* other 49 in their order behind the new entry.
C2_HistoryBoundedFifo ==
    /\ [](Len(selectionHistory) <= HistoryCapacity)
    /\ [][ (addCount' = addCount + 1 /\ Len(selectionHistory) = HistoryCapacity)
           => /\ Len(selectionHistory') = HistoryCapacity
              /\ selectionHistory'[1].seq = addCount'
              /\ SubSeq(selectionHistory', 2, HistoryCapacity)
                    = SubSeq(selectionHistory, 1, HistoryCapacity - 1)
              /\ \A i \in 1..(HistoryCapacity - 1) :
                    selectionHistory[HistoryCapacity].seq
                        < selectionHistory[i].seq ]_vars

\* a full history whose newest entry was added after the capacity was
\* reached, so that the add evicted an entry
C2_Witness ==
    /\ addCount > HistoryCapacity
    /\ Len(selectionHistory) = HistoryCapacity
    /\ selectionHistory[1].seq = addCount
    /\ selectionHistory[HistoryCapacity].seq = addCount - HistoryCapacity + 1

\* C3: when a query result is applied, the selected set becomes exactly the
\* set of ids in that result, whatever was selected before.
C3_ResultReplacesSelection ==
    [][ lastWrite' # lastWrite
        => selectedCompanies' = ResultIds(mutations', lastWrite'.from) ]_vars

\* the second query's result has been applied and an id selected by the
\* first one, absent from the second result, is gone
C3_Witness ==
    /\ lastWrite.from = 2
    /\ mutations[1].status = "settled"
    /\ ResultIds(mutations, 1) \ ResultIds(mutations, 2) # {}
    /\ ResultIds(mutations, 2) # {}
    /\ selectedCompanies = ResultIds(mutations, 2)

\* C4: every time a query result is applied to the selection, one entry
\* holding the selected ids is put at the head of the selection history.
C4_ResultAppendsHistory ==
    [][ lastWrite' # lastWrite
        => /\ selectionHistory' # selectionHistory
           /\ selectionHistory' # << >>
           /\ Range(selectionHistory'[1].companyIds) = selectedCompanies' ]_vars

----------------------------------------------------------------------------
(* The worker's containment tests called on bounded inputs.                *)

GeomCoords == 0..GeomMaxCoord
GeomRadii == 0..2
GeomTickers == << "A", "B", "C", "D" >>

GeomPositions == { << x, z >> : x \in GeomCoords, z \in GeomCoords }

\* point lists of length n over the grid; the i-th point carries the i-th
\* ticker
GeomPointLists ==
    UNION { { [ i \in 1..n |-> [ ticker |-> GeomTickers[i], x |-> f[i][1],
                                 y |-> "0.2", z |-> f[i][2] ] ] :
              f \in [ 1..n -> GeomPositions ] } : n \in 0..GeomMaxPoints }

InitGeom ==
    /\ InitCommon
    /\ spatialAPI = TRUE

\* spatialOps.selectInRectangle(min, max, allCoords)
CallSelectInRectangle ==
    /\ geomCall.fn = "none"
    /\ \E allCoords \in GeomPointLists, a \in GeomPositions, b \in GeomPositions :
          geomCall' = [ fn |-> "selectInRectangle", allCoords |-> allCoords,
                        min |-> P2(a[1], a[2]), max |-> P2(b[1], b[2]),
                        result |-> SelectInRectangle(P2(a[1], a[2]),
                                                     P2(b[1], b[2]), allCoords) ]
    /\ UNCHANGED << storeVars, bufferVars, workerVars, camVars, lastWrite,
                    addCount,
                    workerCalls, managerCalls,
                    mapVars, gestureVars, colorVars, viewVars, netVars, runVars >>

\* spatialOps.selectInCircle(center, radius, allCoords)
CallSelectInCircle ==
    /\ geomCall.fn = "none"
    /\ \E allCoords \in GeomPointLists, c \in GeomPositions, r \in GeomRadii :
          geomCall' = [ fn |-> "selectInCircle", allCoords |-> allCoords,
                        center |-> P2(c[1], c[2]), radius |-> r,
                        result |-> SelectInCircle(P2(c[1], c[2]), r, allCoords) ]
    /\ UNCHANGED << storeVars, bufferVars, workerVars, camVars, lastWrite,
                    addCount,
                    workerCalls, managerCalls,
                    mapVars, gestureVars, colorVars, viewVars, netVars, runVars >>

\* vertex lists of 0..3 vertices on the corners of the grid
GeomCorners == { P2(x, y) : x \in { 0, GeomMaxCoord }, y \in { 0, GeomMaxCoord } }
GeomVertexLists == UNION { [ 1..n -> GeomCorners ] : n \in 0..3 }

\* spatialOps.selectInPolygon(polygonPoints, allCoords)
CallSelectInPolygon ==
    /\ geomCall.fn = "none"
    /\ \E allCoords \in GeomPointLists, polygonPoints \in GeomVertexLists :
          geomCall' = [ fn |-> "selectInPolygon", allCoords |-> allCoords,
                        polygonPoints |-> polygonPoints,
                        divisors |-> PolygonDivisors(polygonPoints, allCoords),
                        result |-> SelectInPolygon(polygonPoints, allCoords) ]
    /\ UNCHANGED << storeVars, bufferVars, workerVars, camVars, lastWrite,
                    addCount, workerCalls, managerCalls, mapVars,
                    gestureVars, colorVars, viewVars, netVars, runVars >>

NextGeom ==
    \/ CallSelectInRectangle
    \/ CallSelectInCircle
    \/ CallSelectInPolygon

SpecGeom == InitGeom /\ [][NextGeom]_vars

----------------------------------------------------------------------------
(* Region colours: utils/stateColors.ts.                                   *)

\* variant of the map in which Florida does not list Alabama back
StateAdjacencyOneWay ==
       ( "Alabama" :> << "Mississippi", "Tennessee", "Georgia", "Florida" >> )
    @@ ( "Alaska" :> <<  >> )
    @@ ( "Arizona" :> << "California", "Nevada", "Utah", "Colorado",
              "New Mexico" >> )
    @@ ( "Arkansas" :> << "Missouri", "Tennessee", "Mississippi",
              "Louisiana", "Texas", "Oklahoma" >> )
    @@ ( "California" :> << "Oregon", "Nevada", "Arizona" >> )
    @@ ( "Colorado" :> << "Wyoming", "Nebraska", "Kansas", "Oklahoma",
              "New Mexico", "Arizona", "Utah" >> )
    @@ ( "Connecticut" :> << "Massachusetts", "Rhode Island", "New York" >> )
    @@ ( "Delaware" :> << "Maryland", "Pennsylvania", "New Jersey" >> )
    @@ ( "Florida" :> << "Georgia" >> )
    @@ ( "Georgia" :> << "Florida", "Alabama", "Tennessee", "North Carolina",
              "South Carolina" >> )
    @@ ( "Hawaii" :> <<  >> )
    @@ ( "Idaho" :> << "Montana", "Wyoming", "Utah", "Nevada", "Oregon",
              "Washington" >> )
    @@ ( "Illinois" :> << "Wisconsin", "Indiana", "Kentucky", "Missouri",
              "Iowa" >> )
    @@ ( "Indiana" :> << "Michigan", "Ohio", "Kentucky", "Illinois" >> )
    @@ ( "Iowa" :> << "Minnesota", "Wisconsin", "Illinois", "Missouri",
              "Nebraska", "South Dakota" >> )
    @@ ( "Kansas" :> << "Nebraska", "Missouri", "Oklahoma", "Colorado" >> )
    @@ ( "Kentucky" :> << "Indiana", "Ohio", "West Virginia", "Virginia",
              "Tennessee", "Missouri", "Illinois" >> )
    @@ ( "Louisiana" :> << "Arkansas", "Mississippi", "Texas" >> )
    @@ ( "Maine" :> << "New Hampshire" >> )
    @@ ( "Maryland" :> << "Delaware", "Pennsylvania", "West Virginia",
              "Virginia" >> )
    @@ ( "Massachusetts" :> << "Rhode Island", "Connecticut", "New York",
              "Vermont", "New Hampshire" >> )
    @@ ( "Michigan" :> << "Ohio", "Indiana", "Wisconsin" >> )
    @@ ( "Minnesota" :> << "Wisconsin", "Iowa", "South Dakota",
              "North Dakota" >> )
    @@ ( "Mississippi" :> << "Louisiana", "Arkansas", "Tennessee",
              "Alabama" >> )
    @@ ( "Missouri" :> << "Iowa", "Illinois", "Kentucky", "Tennessee",
              "Arkansas", "Oklahoma", "Kansas", "Nebraska" >> )
    @@ ( "Montana" :> << "North Dakota", "South Dakota", "Wyoming",
              "Idaho" >> )
    @@ ( "Nebraska" :> << "South Dakota", "Iowa", "Missouri", "Kansas",
              "Colorado", "Wyoming" >> )
    @@ ( "Nevada" :> << "Idaho", "Utah", "Arizona", "California",
              "Oregon" >> )
    @@ ( "New Hampshire" :> << "Maine", "Massachusetts", "Vermont" >> )
    @@ ( "New Jersey" :> << "New York", "Pennsylvania", "Delaware" >> )
    @@ ( "New Mexico" :> << "Colorado", "Oklahoma", "Texas", "Arizona" >> )
    @@ ( "New York" :> << "Vermont", "Massachusetts", "Connecticut",
              "New Jersey", "Pennsylvania" >> )
    @@ ( "North Carolina" :> << "Virginia", "Tennessee", "Georgia",
              "South Carolina" >> )
    @@ ( "North Dakota" :> << "Minnesota", "South Dakota", "Montana" >> )
    @@ ( "Ohio" :> << "Pennsylvania", "West Virginia", "Kentucky", "Indiana",
              "Michigan" >> )
    @@ ( "Oklahoma" :> << "Kansas", "Missouri", "Arkansas", "Texas",
              "New Mexico", "Colorado" >> )
    @@ ( "Oregon" :> << "Washington", "Idaho", "Nevada", "California" >> )
    @@ ( "Pennsylvania" :> << "New York", "New Jersey", "Delaware",
              "Maryland", "West Virginia", "Ohio" >> )
    @@ ( "Rhode Island" :> << "Connecticut", "Massachusetts" >> )
    @@ ( "South Carolina" :> << "North Carolina", "Georgia" >> )
    @@ ( "South Dakota" :> << "North Dakota", "Minnesota", "Iowa",
              "Nebraska", "Wyoming", "Montana" >> )
    @@ ( "Tennessee" :> << "Kentucky", "Virginia", "North Carolina",
              "Georgia", "Alabama", "Mississippi", "Arkansas",
              "Missouri" >> )
    @@ ( "Texas" :> << "New Mexico", "Oklahoma", "Arkansas", "Louisiana" >> )
    @@ ( "Utah" :> << "Idaho", "Wyoming", "Colorado", "Arizona", "Nevada" >> )
    @@ ( "Vermont" :> << "New York", "New Hampshire", "Massachusetts" >> )
    @@ ( "Virginia" :> << "Maryland", "West Virginia", "Kentucky",
              "Tennessee", "North Carolina" >> )
    @@ ( "Washington" :> << "Idaho", "Oregon" >> )
    @@ ( "West Virginia" :> << "Pennsylvania", "Maryland", "Virginia",
              "Kentucky", "Ohio" >> )
    @@ ( "Wisconsin" :> << "Michigan", "Minnesota", "Iowa", "Illinois" >> )
    @@ ( "Wyoming" :> << "Montana", "South Dakota", "Nebraska", "Colorado",
              "Utah", "Idaho" >> )

\* stateAdjacency
StateAdjacency ==
       ( "Alabama" :> << "Mississippi", "Tennessee", "Georgia", "Florida" >> )
    @@ ( "Alaska" :> <<  >> )
    @@ ( "Arizona" :> << "California", "Nevada", "Utah", "Colorado",
              "New Mexico" >> )
    @@ ( "Arkansas" :> << "Missouri", "Tennessee", "Mississippi",
              "Louisiana", "Texas", "Oklahoma" >> )
    @@ ( "California" :> << "Oregon", "Nevada", "Arizona" >> )
    @@ ( "Colorado" :> << "Wyoming", "Nebraska", "Kansas", "Oklahoma",
              "New Mexico", "Arizona", "Utah" >> )
    @@ ( "Connecticut" :> << "Massachusetts", "Rhode Island", "New York" >> )
    @@ ( "Delaware" :> << "Maryland", "Pennsylvania", "New Jersey" >> )
    @@ ( "Florida" :> << "Georgia", "Alabama" >> )
    @@ ( "Georgia" :> << "Florida", "Alabama", "Tennessee", "North Carolina",
              "South Carolina" >> )
    @@ ( "Hawaii" :> <<  >> )
    @@ ( "Idaho" :> << "Montana", "Wyoming", "Utah", "Nevada", "Oregon",
              "Washington" >> )
    @@ ( "Illinois" :> << "Wisconsin", "Indiana", "Kentucky", "Missouri",
              "Iowa" >> )
    @@ ( "Indiana" :> << "Michigan", "Ohio", "Kentucky", "Illinois" >> )
    @@ ( "Iowa" :> << "Minnesota", "Wisconsin", "Illinois", "Missouri",
              "Nebraska", "South Dakota" >> )
    @@ ( "Kansas" :> << "Nebraska", "Missouri", "Oklahoma", "Colorado" >> )
    @@ ( "Kentucky" :> << "Indiana", "Ohio", "West Virginia", "Virginia",
              "Tennessee", "Missouri", "Illinois" >> )
    @@ ( "Louisiana" :> << "Arkansas", "Mississippi", "Texas" >> )
    @@ ( "Maine" :> << "New Hampshire" >> )
    @@ ( "Maryland" :> << "Delaware", "Pennsylvania", "West Virginia",
              "Virginia" >> )
    @@ ( "Massachusetts" :> << "Rhode Island", "Connecticut", "New York",
              "Vermont", "New Hampshire" >> )
    @@ ( "Michigan" :> << "Ohio", "Indiana", "Wisconsin" >> )
    @@ ( "Minnesota" :> << "Wisconsin", "Iowa", "South Dakota",
              "North Dakota" >> )
    @@ ( "Mississippi" :> << "Louisiana", "Arkansas", "Tennessee",
              "Alabama" >> )
    @@ ( "Missouri" :> << "Iowa", "Illinois", "Kentucky", "Tennessee",
              "Arkansas", "Oklahoma", "Kansas", "Nebraska" >> )
    @@ ( "Montana" :> << "North Dakota", "South Dakota", "Wyoming",
              "Idaho" >> )
    @@ ( "Nebraska" :> << "South Dakota", "Iowa", "Missouri", "Kansas",
              "Colorado", "Wyoming" >> )
    @@ ( "Nevada" :> << "Idaho", "Utah", "Arizona", "California",
              "Oregon" >> )
    @@ ( "New Hampshire" :> << "Maine", "Massachusetts", "Vermont" >> )
    @@ ( "New Jersey" :> << "New York", "Pennsylvania", "Delaware" >> )
    @@ ( "New Mexico" :> << "Colorado", "Oklahoma", "Texas", "Arizona" >> )
    @@ ( "New York" :> << "Vermont", "Massachusetts", "Connecticut",
              "New Jersey", "Pennsylvania" >> )
    @@ ( "North Carolina" :> << "Virginia", "Tennessee", "Georgia",
              "South Carolina" >> )
    @@ ( "North Dakota" :> << "Minnesota", "South Dakota", "Montana" >> )
    @@ ( "Ohio" :> << "Pennsylvania", "West Virginia", "Kentucky", "Indiana",
              "Michigan" >> )
    @@ ( "Oklahoma" :> << "Kansas", "Missouri", "Arkansas", "Texas",
              "New Mexico", "Colorado" >> )
    @@ ( "Oregon" :> << "Washington", "Idaho", "Nevada", "California" >> )
    @@ ( "Pennsylvania" :> << "New York", "New Jersey", "Delaware",
              "Maryland", "West Virginia", "Ohio" >> )
    @@ ( "Rhode Island" :> << "Connecticut", "Massachusetts" >> )
    @@ ( "South Carolina" :> << "North Carolina", "Georgia" >> )
    @@ ( "South Dakota" :> << "North Dakota", "Minnesota", "Iowa",
              "Nebraska", "Wyoming", "Montana" >> )
    @@ ( "Tennessee" :> << "Kentucky", "Virginia", "North Carolina",
              "Georgia", "Alabama", "Mississippi", "Arkansas",
              "Missouri" >> )
    @@ ( "Texas" :> << "New Mexico", "Oklahoma", "Arkansas", "Louisiana" >> )
    @@ ( "Utah" :> << "Idaho", "Wyoming", "Colorado", "Arizona", "Nevada" >> )
    @@ ( "Vermont" :> << "New York", "New Hampshire", "Massachusetts" >> )
    @@ ( "Virginia" :> << "Maryland", "West Virginia", "Kentucky",
              "Tennessee", "North Carolina" >> )
    @@ ( "Washington" :> << "Idaho", "Oregon" >> )
    @@ ( "West Virginia" :> << "Pennsylvania", "Maryland", "Virginia",
              "Kentucky", "Ohio" >> )
    @@ ( "Wisconsin" :> << "Michigan", "Minnesota", "Iowa", "Illinois" >> )
    @@ ( "Wyoming" :> << "Montana", "South Dakota", "Nebraska", "Colorado",
              "Utah", "Idaho" >> )

\* Object.keys(stateAdjacency), in the order the map is written
AdjacencyKeys ==
    << "Alabama", "Alaska", "Arizona", "Arkansas", "California", "Colorado",
       "Connecticut", "Delaware", "Florida", "Georgia", "Hawaii",
       "Idaho", "Illinois", "Indiana", "Iowa", "Kansas", "Kentucky",
       "Louisiana", "Maine", "Maryland", "Massachusetts", "Michigan",
       "Minnesota", "Mississippi", "Missouri", "Montana", "Nebraska",
       "Nevada", "New Hampshire", "New Jersey", "New Mexico",
       "New York", "North Carolina", "North Dakota", "Ohio",
       "Oklahoma", "Oregon", "Pennsylvania", "Rhode Island",
       "South Carolina", "South Dakota", "Tennessee", "Texas", "Utah",
       "Vermont", "Virginia", "Washington", "West Virginia",
       "Wisconsin", "Wyoming" >>

\* variant of the palette cut down to its first three colours
ThreeColorPalette == << 3900150, 15680580, 1096065 >>

\* stateColorPalette
StateColorPalette ==
    << 3900150, 15680580, 1096065, 16096779, 9133302,
       440020, 16347926, 15485081, 6514417, 8702998 >>

\* a region's name as the UTF-16 code units that split('') yields
CharCodes ==
       ( "Alabama" :> << 65, 108, 97, 98, 97, 109, 97 >> )
    @@ ( "Alaska" :> << 65, 108, 97, 115, 107, 97 >> )
    @@ ( "Arizona" :> << 65, 114, 105, 122, 111, 110, 97 >> )
    @@ ( "Arkansas" :> << 65, 114, 107, 97, 110, 115, 97, 115 >> )
    @@ ( "California" :> << 67, 97, 108, 105, 102, 111, 114, 110, 105, 97 >> )
    @@ ( "Colorado" :> << 67, 111, 108, 111, 114, 97, 100, 111 >> )
    @@ ( "Connecticut" :> << 67, 111, 110, 110, 101, 99, 116, 105, 99, 117,
              116 >> )
    @@ ( "Delaware" :> << 68, 101, 108, 97, 119, 97, 114, 101 >> )
    @@ ( "Florida" :> << 70, 108, 111, 114, 105, 100, 97 >> )
    @@ ( "Georgia" :> << 71, 101, 111, 114, 103, 105, 97 >> )
    @@ ( "Hawaii" :> << 72, 97, 119, 97, 105, 105 >> )
    @@ ( "Idaho" :> << 73, 100, 97, 104, 111 >> )
    @@ ( "Illinois" :> << 73, 108, 108, 105, 110, 111, 105, 115 >> )
    @@ ( "Indiana" :> << 73, 110, 100, 105, 97, 110, 97 >> )
    @@ ( "Iowa" :> << 73, 111, 119, 97 >> )
    @@ ( "Kansas" :> << 75, 97, 110, 115, 97, 115 >> )
    @@ ( "Kentucky" :> << 75, 101, 110, 116, 117, 99, 107, 121 >> )
    @@ ( "Louisiana" :> << 76, 111, 117, 105, 115, 105, 97, 110, 97 >> )
    @@ ( "Maine" :> << 77, 97, 105, 110, 101 >> )
    @@ ( "Maryland" :> << 77, 97, 114, 121, 108, 97, 110, 100 >> )
    @@ ( "Massachusetts" :> << 77, 97, 115, 115, 97, 99, 104, 117, 115, 101,
              116, 116, 115 >> )
    @@ ( "Michigan" :> << 77, 105, 99, 104, 105, 103, 97, 110 >> )
    @@ ( "Minnesota" :> << 77, 105, 110, 110, 101, 115, 111, 116, 97 >> )
    @@ ( "Mississippi" :> << 77, 105, 115, 115, 105, 115, 115, 105, 112, 112,
              105 >> )
    @@ ( "Missouri" :> << 77, 105, 115, 115, 111, 117, 114, 105 >> )
    @@ ( "Montana" :> << 77, 111, 110, 116, 97, 110, 97 >> )
    @@ ( "Nebraska" :> << 78, 101, 98, 114, 97, 115, 107, 97 >> )
    @@ ( "Nevada" :> << 78, 101, 118, 97, 100, 97 >> )
    @@ ( "New Hampshire" :> << 78, 101, 119, 32, 72, 97, 109, 112, 115, 104,
              105, 114, 101 >> )
    @@ ( "New Jersey" :> << 78, 101, 119, 32, 74, 101, 114, 115, 101, 121 >> )
    @@ ( "New Mexico" :> << 78, 101, 119, 32, 77, 101, 120, 105, 99, 111 >> )
    @@ ( "New York" :> << 78, 101, 119, 32, 89, 111, 114, 107 >> )
    @@ ( "North Carolina" :> << 78, 111, 114, 116, 104, 32, 67, 97, 114, 111,
              108, 105, 110, 97 >> )
    @@ ( "North Dakota" :> << 78, 111, 114, 116, 104, 32, 68, 97, 107, 111,
              116, 97 >> )
    @@ ( "Ohio" :> << 79, 104, 105, 111 >> )
    @@ ( "Oklahoma" :> << 79, 107, 108, 97, 104, 111, 109, 97 >> )
    @@ ( "Oregon" :> << 79, 114, 101, 103, 111, 110 >> )
    @@ ( "Pennsylvania" :> << 80, 101, 110, 110, 115, 121, 108, 118, 97, 110,
              105, 97 >> )
    @@ ( "Rhode Island" :> << 82, 104, 111, 100, 101, 32, 73, 115, 108, 97,
              110, 100 >> )
    @@ ( "South Carolina" :> << 83, 111, 117, 116, 104, 32, 67, 97, 114, 111,
              108, 105, 110, 97 >> )
    @@ ( "South Dakota" :> << 83, 111, 117, 116, 104, 32, 68, 97, 107, 111,
              116, 97 >> )
    @@ ( "Tennessee" :> << 84, 101, 110, 110, 101, 115, 115, 101, 101 >> )
    @@ ( "Texas" :> << 84, 101, 120, 97, 115 >> )
    @@ ( "Utah" :> << 85, 116, 97, 104 >> )
    @@ ( "Vermont" :> << 86, 101, 114, 109, 111, 110, 116 >> )
    @@ ( "Virginia" :> << 86, 105, 114, 103, 105, 110, 105, 97 >> )
    @@ ( "Washington" :> << 87, 97, 115, 104, 105, 110, 103, 116, 111,
              110 >> )
    @@ ( "West Virginia" :> << 87, 101, 115, 116, 32, 86, 105, 114, 103, 105,
              110, 105, 97 >> )
    @@ ( "Wisconsin" :> << 87, 105, 115, 99, 111, 110, 115, 105, 110 >> )
    @@ ( "Wyoming" :> << 87, 121, 111, 109, 105, 110, 103 >> )
    @@ ( "District of Columbia" :> << 68, 105, 115, 116, 114, 105, 99, 116,
              32, 111, 102, 32, 67, 111, 108, 117, 109, 98, 105, 97 >> )
    @@ ( "Puerto Rico" :> << 80, 117, 101, 114, 116, 111, 32, 82, 105, 99,
              111 >> )
    @@ ( "Guam" :> << 71, 117, 97, 109 >> )
    @@ ( "Atlantis" :> << 65, 116, 108, 97, 110, 116, 105, 115 >> )

\* stateAdjacency[state] || []
Neighbors(state) ==
    IF state \in DOMAIN StateAdjacency THEN StateAdjacency[state] ELSE << >>

\* stateAdjacency[a]?.length || 0
NeighborCount(state) == Len(Neighbors(state))

\* the largest number of neighbours a region has in stateAdjacency
MaxNeighbors ==
    CHOOSE m \in { Len(StateAdjacency[s]) : s \in DOMAIN StateAdjacency } :
        \A s \in DOMAIN StateAdjacency : Len(StateAdjacency[s]) <= m

\* the elements of states with exactly count neighbours, in their order
WithNeighbors(states, count) ==
    SelectSeq(states, LAMBDA s : NeighborCount(s) = count)

RECURSIVE SortFrom(_, _)
SortFrom(states, count) ==
    IF count < 0 THEN << >>
    ELSE WithNeighbors(states, count) \o SortFrom(states, count - 1)

\* variant of the sort that puts the regions with fewest neighbours first
SortByNeighborsAscending(states) ==
    LET Up[count \in 0..(MaxNeighbors + 1)] ==
            IF count > MaxNeighbors THEN << >>
            ELSE WithNeighbors(states, count) \o Up[count + 1]
    IN  Up[0]

\* [...states].sort((a, b) => bNeighbors - aNeighbors): Array.prototype.sort
\* is stable, so the result lists the elements by decreasing number of
\* neighbours, and those with as many neighbours in their input order
SortByNeighbors(states) == SortFrom(states, MaxNeighbors)

\* the colours the neighbours of a region have in colorMap
UsedColors(state, colorMap) ==
    { colorMap[Neighbors(state)[i]] :
        i \in { j \in 1..Len(Neighbors(state)) :
                  Neighbors(state)[j] \in DOMAIN colorMap } }

RECURSIVE FirstAvailable(_, _, _)
\* while (usedColors.has(colorIndex) && colorIndex < palette.length) colorIndex++
FirstAvailable(usedColors, colorIndex, palette) ==
    IF colorIndex \in usedColors /\ colorIndex < Len(palette)
    THEN FirstAvailable(usedColors, colorIndex + 1, palette)
    ELSE colorIndex

\* the index a region gets whose coloured neighbours hold usedColors:
\* the while loop's colorIndex, modulo the palette length
ColorIndexFor(usedColors) ==
    FirstAvailable(usedColors, 0, StateColorPalette) % Len(StateColorPalette)

\* the body of sortedStates.forEach
AssignOne(state, colorMap) ==
    (state :> ColorIndexFor(UsedColors(state, colorMap))) @@ colorMap

RECURSIVE AssignLoop(_, _, _)
\* sortedStates.forEach; each map is bound before the next step uses it
AssignLoop(sortedStates, k, colorMap) ==
    IF k > Len(sortedStates) THEN colorMap
    ELSE CHOOSE r \in { AssignLoop(sortedStates, k + 1, next) :
                            next \in { AssignOne(sortedStates[k], colorMap) } } :
             TRUE

\* assignStateColors: the map is reset, then filled greedily
AssignStateColors(states) == AssignLoop(SortByNeighbors(states), 1, << >>)

\* The fallback hash of getStateColor.  acc is a JavaScript number: << 5
\* works on its low 32 bits and yields a signed 32-bit value, while the
\* subtraction and the addition are exact, so acc leaves the 32-bit range.
\* acc is written << hi, lo >> for hi * 65536 + lo with 0 <= lo < 65536.
HalfWord == 65536

\* (acc << 5) as a signed 32-bit value
ShiftLeft5(acc) ==
    LET lo32 == acc[2] * 32
        hiU  == ((acc[1] % HalfWord) * 32 + lo32 \div HalfWord) % HalfWord
    IN  << IF hiU >= HalfWord \div 2 THEN hiU - HalfWord ELSE hiU,
           lo32 % HalfWord >>

\* char.charCodeAt(0) + ((acc << 5) - acc)
HashStep(acc, code) ==
    LET w  == ShiftLeft5(acc)
        lo == code + w[2] - acc[2]
    IN  << w[1] - acc[1] + lo \div HalfWord, lo % HalfWord >>

\* the reduce over the characters; each step's value is bound before the
\* next step uses it
RECURSIVE HashLoop(_, _, _)
HashLoop(codes, k, acc) ==
    IF k > Len(codes) THEN acc
    ELSE CHOOSE r \in { HashLoop(codes, k + 1, next) :
                            next \in { HashStep(acc, codes[k]) } } : TRUE

\* Math.abs(hash % stateColorPalette.length): the remainder has the sign of
\* hash, so this is |hash| modulo the palette length
HashIndex(stateName) ==
    LET acc == HashLoop(CharCodes[stateName], 1, << 0, 0 >>)
        n   == Len(StateColorPalette)
        m   == ((acc[1] % n) * (HalfWord % n) + acc[2]) % n
    IN  IF acc[1] >= 0 THEN m ELSE (n - m) % n

\* getStateColor
GetStateColor(colorMap, stateName) ==
    IF stateName \notin DOMAIN colorMap
    THEN StateColorPalette[HashIndex(stateName) + 1]
    ELSE StateColorPalette[colorMap[stateName] + 1]

\* s with its first k elements moved to the end
Rotate(s, k) == SubSeq(s, k + 1, Len(s)) \o SubSeq(s, 1, k)

Reverse(s) == [ i \in 1..Len(s) |-> s[Len(s) + 1 - i] ]

\* names of map features that are not keys of stateAdjacency
OtherRegions == << "District of Columbia", "Puerto Rico", "Guam" >>

\* lists handed to assignStateColors: every region of the adjacency map in
\* several orders, with and without further feature names, and short lists
ColorInputs ==
    { Rotate(AdjacencyKeys, k) : k \in 0..MaxRotation }
    \cup { Reverse(Rotate(AdjacencyKeys, k)) : k \in 0..MaxRotation }
    \cup { OtherRegions \o Rotate(AdjacencyKeys, k) : k \in 0..MaxRotation }
    \cup { << "Texas", "Oklahoma", "Guam" >>, << >> }

\* names getStateColor is asked about
ColorNames ==
    { "Tennessee", "Missouri", "Texas", "Alaska", "District of Columbia",
      "Puerto Rico", "Guam", "Atlantis" }

ColorsUnchanged ==
    UNCHANGED << storeVars, bufferVars, workerVars, camVars, lastWrite,
                 addCount, callVars, mapVars, gestureVars, runVars, viewVars, netVars >>

\* assignStateColors(states), as loadUSMap calls it with the feature names
AssignStateColorsAction ==
    /\ \E states \in ColorInputs :
          /\ stateColorMap' = AssignStateColors(states)
          /\ colorPrev' = states
          /\ << stateColorMap', colorPrev' >> # << stateColorMap, colorPrev >>
    /\ UNCHANGED colorQuery
    /\ ColorsUnchanged

\* getStateColor(stateName)
GetStateColorAction ==
    /\ \E stateName \in ColorNames :
          /\ colorQuery' = [ name |-> stateName,
                             color |-> GetStateColor(stateColorMap, stateName) ]
          /\ colorQuery' # colorQuery
    /\ UNCHANGED << stateColorMap, colorPrev >>
    /\ ColorsUnchanged

InitColors ==
    /\ InitCommon
    /\ spatialAPI = TRUE

NextColors ==
    \/ AssignStateColorsAction
    \/ GetStateColorAction

SpecColors == InitColors /\ [][NextColors]_vars

----------------------------------------------------------------------------
(* SpecRing: selectInPolygon called on doubles, with one ring of vertices  *)
(* written in every rotation and in both orders.                           *)

\* The double significand / 2^k, for a significand below 2^31.
Dyadic(significand, k) ==
    Fl([ n |-> SBig(significand), d |-> BigPow2(k) ])

\* 0.3333333333333333 and 0.33333333333333337, the doubles next to 1/3:
\* 6004799503160661 / 2^54 and 3002399751580331 / 2^53
ThirdBelow == FlDiv(QInt(1), QInt(3))
ThirdAbove == Fl(QAdd(ThirdBelow, Dyadic(1, 54)))

RingXs == { ThirdBelow, ThirdAbove, QInt(1) }
RingZs == { QInt(1) }

RingPointLists ==
    UNION { { [ i \in 1..n |-> [ ticker |-> GeomTickers[i], x |-> f[i][1],
                                 y |-> "0.2", z |-> f[i][2] ] ] :
              f \in [ 1..n -> RingXs \X RingZs ] } : n \in 0..GeomMaxPoints }

Q2(x, y) == [ x |-> QInt(x), y |-> QInt(y) ]

\* A triangle and a quadrilateral with whole-number vertices.
Rings == { << Q2(0, 0), Q2(1, 3), Q2(5, 0) >>,
           << Q2(0, 0), Q2(3, 0), Q2(4, 3), Q2(1, 3) >> }

RingVertexLists ==
    UNION { { Rotate(ring, k) : k \in 0..(Len(ring) - 1) }
            \cup { Rotate(Reverse(ring), k) : k \in 0..(Len(ring) - 1) } :
            ring \in Rings }

\* spatialOps.selectInPolygon(polygonPoints, allCoords)
CallSelectInPolygonDouble ==
    /\ geomCall.fn = "none"
    /\ \E allCoords \in RingPointLists, polygonPoints \in RingVertexLists :
          geomCall' = [ fn |-> "selectInPolygon", allCoords |-> allCoords,
                        polygonPoints |-> polygonPoints,
                        result |-> SelectInPolygonDouble(polygonPoints,
                                                         allCoords) ]
    /\ UNCHANGED << storeVars, bufferVars, workerVars, camVars, lastWrite,
                    addCount, workerCalls, managerCalls, mapVars,
                    gestureVars, colorVars, viewVars, netVars, runVars >>

InitRing == InitCommon /\ spatialAPI = TRUE

NextRing == CallSelectInPolygonDouble

SpecRing == InitRing /\ [][NextRing]_vars

----------------------------------------------------------------------------
(* The worker object called several times in a row.  SpatialOperations has *)
(* no fields and initializeData has an empty body, so the object carries   *)
(* nothing from one call to the next; workerCalls lists the calls made.    *)

WorkerPointLists ==
    { << [ ticker |-> "A", x |-> 22, y |-> "0.2", z |-> -3 ],
         [ ticker |-> "B", x |-> -22, y |-> "0.2", z |-> 4 ] >>,
      << [ ticker |-> "B", x |-> -22, y |-> "0.2", z |-> 4 ],
         [ ticker |-> "E", x |-> 0, y |-> "0.2", z |-> 0 ] >> }

WorkerUnchanged ==
    UNCHANGED << storeVars, bufferVars, workerVars, camVars, lastWrite,
                 addCount, geomCall, managerCalls, mapVars, gestureVars,
                 colorVars, viewVars, netVars, runVars >>

\* spatialOps.initializeData(): no-op
WorkerInitializeData ==
    /\ Len(workerCalls) < MaxWorkerCalls
    /\ \E list \in WorkerPointLists :
          workerCalls' = Append(workerCalls,
              [ fn |-> "initializeData", companies |-> list ])
    /\ WorkerUnchanged

WorkerSelectInRectangle ==
    /\ Len(workerCalls) < MaxWorkerCalls
    /\ \E g \in RectangleQueries, allCoords \in WorkerPointLists :
          workerCalls' = Append(workerCalls,
              [ fn |-> "selectInRectangle", geometry |-> g,
                allCoords |-> allCoords,
                result |-> SelectInRectangle(g.min, g.max, allCoords) ])
    /\ WorkerUnchanged

WorkerSelectInCircle ==
    /\ Len(workerCalls) < MaxWorkerCalls
    /\ \E g \in CircleQueries, allCoords \in WorkerPointLists :
          workerCalls' = Append(workerCalls,
              [ fn |-> "selectInCircle", geometry |-> g,
                allCoords |-> allCoords,
                result |-> SelectInCircle(g.center, g.radius, allCoords) ])
    /\ WorkerUnchanged

WorkerSelectInPolygon ==
    /\ Len(workerCalls) < MaxWorkerCalls
    /\ \E g \in PolygonQueries, allCoords \in WorkerPointLists :
          workerCalls' = Append(workerCalls,
              [ fn |-> "selectInPolygon", geometry |-> g,
                allCoords |-> allCoords,
                result |-> SelectInPolygon(g.points, allCoords) ])
    /\ WorkerUnchanged

InitWorker ==
    /\ InitCommon
    /\ spatialAPI = TRUE

NextWorker ==
    \/ WorkerInitializeData
    \/ WorkerSelectInRectangle
    \/ WorkerSelectInCircle
    \/ WorkerSelectInPolygon

SpecWorker == InitWorker /\ [][NextWorker]_vars

----------------------------------------------------------------------------
(* The spatial worker manager called directly.  A call made while the      *)
(* proxy exists is posted to the worker; the worker serves its requests in *)
(* arrival order and answers with a result or with an error, which the     *)
(* proxy turns into a rejection of the awaited promise.  dispose           *)
(* terminates the worker: requests it has not served are never answered.   *)

\* variant of the manager's first line without the test of the proxy: the
\* call on the missing proxy throws
OutcomeOfCallUnguarded(api) ==
    IF api THEN [ status |-> "pending", result |-> << >> ]
    ELSE [ status |-> "rejected", result |-> << >> ]

\* selectInRectangle / selectInCircle / selectInPolygon up to the await:
\* if (!this.spatialAPI) return []
OutcomeOfCall(api) ==
    IF api THEN [ status |-> "pending", result |-> << >> ]
    ELSE [ status |-> "resolved", result |-> << >> ]

\* the rest of the try/catch once the worker's reply is there: the result
\* is returned, an error is caught and [] returned
OutcomeOfReply(reply) ==
    IF reply.error THEN [ status |-> "resolved", result |-> << >> ]
    ELSE [ status |-> "resolved", result |-> reply.result ]

ManagerRequests ==
    { [ type |-> "rectangle", geometry |-> g, coords |-> c, units |-> "whole" ] :
        g \in RectangleQueries, c \in WorkerPointLists }
    \cup { [ type |-> "circle", geometry |-> g, coords |-> c, units |-> "whole" ] :
        g \in CircleQueries, c \in WorkerPointLists }
    \cup { [ type |-> "polygon", geometry |-> g, coords |-> c, units |-> "whole" ] :
        g \in PolygonQueries, c \in WorkerPointLists }

ManagerUnchanged ==
    UNCHANGED << storeVars, bufferVars, mutations, camVars, geomCall,
                 workerCalls, lastWrite, addCount, mapVars, gestureVars,
                 colorVars, viewVars, netVars, runVars >>

\* a call of one of the three selection methods of the manager
ManagerSelect ==
    /\ Len(managerCalls) < MaxManagerCalls
    /\ \E req \in ManagerRequests :
          managerCalls' = Append(managerCalls,
              [ request |-> req, available |-> spatialAPI, failed |-> FALSE ]
              @@ OutcomeOfCall(spatialAPI))
    /\ workerInbox' = IF spatialAPI
                      THEN Append(workerInbox, Len(managerCalls) + 1)
                      ELSE workerInbox
    /\ UNCHANGED << spatialAPI, workerOutbox >>
    /\ ManagerUnchanged

\* the worker serves its oldest request and posts the result
ManagerWorkerReplies ==
    /\ workerInbox # << >>
    /\ workerOutbox' = Append(workerOutbox,
          [ id |-> Head(workerInbox), error |-> FALSE,
            result |-> WorkerCompute(managerCalls[Head(workerInbox)].request) ])
    /\ workerInbox' = Tail(workerInbox)
    /\ UNCHANGED << spatialAPI, managerCalls >>
    /\ ManagerUnchanged

\* serving its oldest request the worker throws; the error is posted back
ManagerWorkerThrows ==
    /\ workerInbox # << >>
    /\ workerOutbox' = Append(workerOutbox,
          [ id |-> Head(workerInbox), error |-> TRUE, result |-> << >> ])
    /\ workerInbox' = Tail(workerInbox)
    /\ UNCHANGED << spatialAPI, managerCalls >>
    /\ ManagerUnchanged

\* a reply reaches the main thread and the awaiting call goes on
ManagerReceives ==
    /\ workerOutbox # << >>
    /\ LET reply == Head(workerOutbox)
       IN  managerCalls' = [ managerCalls EXCEPT ![reply.id] =
               [ request |-> @.request, available |-> @.available,
                 failed |-> reply.error ] @@ OutcomeOfReply(reply) ]
    /\ workerOutbox' = Tail(workerOutbox)
    /\ UNCHANGED << spatialAPI, workerInbox >>
    /\ ManagerUnchanged

\* dispose: the worker is terminated and the proxy dropped.  Replies the
\* worker had already posted may or may not still be delivered.
ManagerDispose ==
    /\ spatialAPI
    /\ spatialAPI' = FALSE
    /\ workerInbox' = << >>
    /\ workerOutbox' \in { workerOutbox, << >> }
    /\ UNCHANGED managerCalls
    /\ ManagerUnchanged

InitManager == Init

NextManager ==
    \/ ManagerSelect
    \/ ManagerWorkerReplies
    \/ ManagerWorkerThrows
    \/ ManagerReceives
    \/ ManagerDispose

SpecManager == InitManager /\ [][NextManager]_vars

----------------------------------------------------------------------------
(* Claims about the camera.                                                *)

\* x * x + z * z of the camera position, exactly
DistanceSquared(cam) == QAdd(QMul(cam.x, cam.x), QMul(cam.z, cam.z))

\* the camera position is a pair of numbers at most MAX_PAN_DISTANCE from
\* the origin
WithinPanRadius(cam) ==
    /\ IsFinite(cam.x) /\ IsFinite(cam.z)
    /\ QLeq(DistanceSquared(cam), QInt(MAX_PAN_DISTANCE * MAX_PAN_DISTANCE))

\* C5: after a pan the camera is at most MAX_PAN_DISTANCE from the origin
\* in the ground plane; a pan whose target lies within that radius puts the
\* camera on the target, and a pan whose target lies outside it puts the
\* camera at the boundary, on the side of the target.
C5_PanClampedToRadius ==
    camPrev.op = "pan" =>
        /\ WithinPanRadius(camera)
        /\ ~camPrev.outside =>
              /\ camera.x = camPrev.target.x
              /\ camera.z = camPrev.target.z
        /\ camPrev.outside =>
              /\ QLess(QInt((MAX_PAN_DISTANCE - 1) * (MAX_PAN_DISTANCE - 1)),
                       DistanceSquared(camera))
              /\ QSign(camera.x) = QSign(camPrev.target.x)
              /\ QSign(camera.z) = QSign(camPrev.target.z)

\* C6: in every state reached by pans and zooms the camera position stays
\* within MAX_PAN_DISTANCE of the origin.
C6_CameraWithinPanRadius == WithinPanRadius(camera)

\* C7: the camera zoom always satisfies MIN_ZOOM <= zoom <= MAX_ZOOM.
C7_ZoomClamped ==
    /\ QLeq(MIN_ZOOM, camera.zoom)
    /\ QLeq(camera.zoom, MAX_ZOOM)

\* a zoom that asked for more than MAX_ZOOM has just been applied
C7_Witness ==
    /\ camPrev.op = "zoom"
    /\ QLess(MAX_ZOOM, camPrev.raw)
    /\ camera.zoom = MAX_ZOOM

\* one millionth of a ground unit
AnchorTolerance == [ n |-> SBig(1), d |-> BigOf(1000000) ]

\* a and b are numbers no more than AnchorTolerance apart
WithinTolerance(a, b) ==
    /\ IsFinite(a) /\ IsFinite(b)
    /\ QLeq(QAbs(QSub(a, b)), AnchorTolerance)

\* C8: after handleZoom the anchor screen position unprojects to the same
\* ground point as before the call, to within a millionth of a unit.
C8_ZoomKeepsAnchorFixed ==
    camPrev.op = "zoom" =>
        \E after \in { UnprojectScreenCoords(camera,
                                              QInt(camPrev.anchor[1]),
                                              QInt(camPrev.anchor[2])) } :
            /\ WithinTolerance(after.x, camPrev.before.x)
            /\ WithinTolerance(after.z, camPrev.before.z)

----------------------------------------------------------------------------
(* Claims about the worker's containment tests.                            *)

\* C9: selectInRectangle returns a point p iff min.x <= p.x <= max.x and
\* min.y <= p.z <= max.y; points on an edge or corner are included.
C9_RectangleInclusive ==
    geomCall.fn = "selectInRectangle" =>
        \A i \in 1..Len(geomCall.allCoords) :
            LET p == geomCall.allCoords[i]
            IN  (p \in Range(geomCall.result))
                <=> /\ geomCall.min.x <= p.x /\ p.x <= geomCall.max.x
                    /\ geomCall.min.y <= p.z /\ p.z <= geomCall.max.y

\* a point on the corner (max.x, min.y) of a proper rectangle is returned
\* and another point is left out
C9_Witness ==
    /\ geomCall.fn = "selectInRectangle"
    /\ geomCall.min.x < geomCall.max.x
    /\ geomCall.min.y < geomCall.max.y
    /\ Len(geomCall.allCoords) = 2
    /\ Len(geomCall.result) = 1
    /\ geomCall.result[1].x = geomCall.max.x
    /\ geomCall.result[1].z = geomCall.min.y

\* C10: for radius r >= 0 selectInCircle returns a point p iff
\* (p.x - c.x)^2 + (p.z - c.y)^2 <= r^2; a circle of radius 0 centred on a
\* point includes that point.
C10_CircleSquaredDistance ==
    (geomCall.fn = "selectInCircle" /\ geomCall.radius >= 0) =>
        \A i \in 1..Len(geomCall.allCoords) :
            LET p == geomCall.allCoords[i]
                dx == p.x - geomCall.center.x
                dz == p.z - geomCall.center.y
            IN  (p \in Range(geomCall.result))
                <=> dx * dx + dz * dz <= geomCall.radius * geomCall.radius

\* a circle of radius 0 has returned the point at its centre and nothing else
C10_Witness ==
    /\ geomCall.fn = "selectInCircle"
    /\ geomCall.radius = 0
    /\ Len(geomCall.allCoords) = 2
    /\ Len(geomCall.result) = 1
    /\ geomCall.result[1].x = geomCall.center.x
    /\ geomCall.result[1].z = geomCall.center.y

\* C11: selectInPolygon called with a vertex list of fewer than 3 vertices
\* returns the empty list, whatever the point list is.
C11_DegeneratePolygonSelectsNothing ==
    (geomCall.fn = "selectInPolygon" /\ Len(geomCall.polygonPoints) < 3)
        => geomCall.result = << >>

\* a 2-vertex list has been tried on two points, one of them on a vertex
C11_Witness ==
    /\ geomCall.fn = "selectInPolygon"
    /\ Len(geomCall.polygonPoints) = 2
    /\ geomCall.polygonPoints[1] # geomCall.polygonPoints[2]
    /\ Len(geomCall.allCoords) = 2
    /\ geomCall.allCoords[1].x = geomCall.polygonPoints[1].x
    /\ geomCall.allCoords[1].z = geomCall.polygonPoints[1].y
    /\ geomCall.result = << >>

\* the last pointer handler was a mouse up that ended a capture in one of
\* the given modes with fewer than 3 captured vertices
ShortGestureEnded(modes) ==
    /\ gesturePrev.op = "up"
    /\ gesturePrev.selecting
    /\ gesturePrev.mode \in modes
    /\ gesturePrev.points < 3

\* C12: when a polygon gesture ends with fewer than 3 captured vertices, no
\* request is made: the mouse up leaves the number of queries as it found it
\* and nothing waits at the worker that did not wait before.
C12_ShortPolygonSendsNothing ==
    ShortGestureEnded({ "polygon" }) =>
        /\ Len(mutations) = gesturePrev.queries
        /\ \A i \in 1..Len(workerInbox) : workerInbox[i] <= gesturePrev.queries

\* a polygon gesture has ended with 2 captured vertices on a loaded buffer,
\* with the worker available and room for a query
C12_Witness ==
    /\ ShortGestureEnded({ "polygon" })
    /\ gesturePrev.points = 2
    /\ projectedCoords # << >>
    /\ spatialAPI
    /\ Len(mutations) < MaxQueries

\* C13: when a polygon or lasso gesture ends with fewer than 3 captured
\* vertices, the mouse up leaves the selected set empty, whatever it held.
C13_ShortGestureEmptiesSelection ==
    [][ ( /\ gesturePrev'.n # gesturePrev.n
          /\ gesturePrev'.op = "up"
          /\ gesture.isSelecting
          /\ gesture.selectionMode \in { "polygon", "lasso" }
          /\ Len(gesture.selectionPoints) < 3 )
        => selectedCompanies' = {} ]_vars

\* C15: once assignStateColors has run on a list holding every region of
\* the adjacency map, no region has the colour index of a region that the
\* adjacency map lists as its neighbour.
C15_AdjacentRegionsDiffer ==
    (\A s \in DOMAIN StateAdjacency : s \in DOMAIN stateColorMap)
    => \A a \in DOMAIN StateAdjacency :
           \A i \in 1..Len(StateAdjacency[a]) :
               stateColorMap[a] # stateColorMap[StateAdjacency[a][i]]

\* every region of the adjacency map is coloured, together with the other
\* features, and the greedy pass needed a fourth colour
C15_Witness ==
    /\ \A s \in DOMAIN StateAdjacency : s \in DOMAIN stateColorMap
    /\ "Guam" \in DOMAIN stateColorMap
    /\ \E s \in DOMAIN StateAdjacency : stateColorMap[s] = 3
    /\ stateColorMap["Missouri"] # stateColorMap["Tennessee"]

\* C16: getStateColor of a name that is not a key of the adjacency map
\* returns the palette colour at the hash of the name, whether or not the
\* name was in the list given to assignStateColors.
C16_UnknownRegionGetsHashColor ==
    ( /\ colorQuery.name # NULL
      /\ colorQuery.name \notin DOMAIN StateAdjacency )
    => colorQuery.color = StateColorPalette[HashIndex(colorQuery.name) + 1]

\* the entities of the last rebuild that have a location and a projection,
\* in input order
Placeable ==
    SelectSeq(bufPrev.companies,
              LAMBDA c : HasLocation(c)
                         /\ Projection(c.longitude, c.latitude) # NoPos)

\* C17: after a rebuild of the point buffer every point has the hover
\* colour if its id is the hovered id, otherwise the selection colour if its
\* id is in the selected set, otherwise the default colour.
C17_HoverBeforeSelection ==
    bufPrev.op = "updatePoints"
    => /\ Len(pointColors) = Len(projectedCoords)
       /\ \A i \in 1..Len(projectedCoords) :
            pointColors[i] =
                IF projectedCoords[i].ticker = bufPrev.hoveredId
                THEN "HOVER_COLOR"
                ELSE IF projectedCoords[i].ticker \in bufPrev.selectedCompanies
                THEN "SELECTION_COLOR"
                ELSE "DEFAULT_COLOR"

\* a rebuild in which the hovered point is also selected, next to a point
\* that is only selected and one that is neither
C17_Witness ==
    /\ bufPrev.op = "updatePoints"
    /\ bufPrev.hoveredId \in bufPrev.selectedCompanies
    /\ \E i, j, k \in 1..Len(projectedCoords) :
          /\ projectedCoords[i].ticker = bufPrev.hoveredId
          /\ pointColors[i] = "HOVER_COLOR"
          /\ projectedCoords[j].ticker \in bufPrev.selectedCompanies
          /\ pointColors[j] = "SELECTION_COLOR"
          /\ pointColors[k] = "DEFAULT_COLOR"

\* C18: after a rebuild the buffer holds at most MAX_POINTS points, they are
\* the first placeable entities in input order, and the published point
\* count is the number of slots.
C18_BufferCappedInInputOrder ==
    bufPrev.op = "updatePoints"
    => /\ Len(projectedCoords) <= MAX_POINTS
       /\ LET placeable == Placeable
          IN  /\ Len(projectedCoords) =
                   IF Len(placeable) > MAX_POINTS THEN MAX_POINTS
                   ELSE Len(placeable)
              /\ \A i \in 1..Len(projectedCoords) :
                   projectedCoords[i].ticker = placeable[i].ticker
       /\ pointCount = Len(projectedCoords)
       /\ pointCount = Len(pointColors)

\* a rebuild from a snapshot with more placeable entities than slots, some
\* of its entities without a projection among the first MAX_POINTS
C18_Witness ==
    /\ bufPrev.op = "updatePoints"
    /\ Len(Placeable) > MAX_POINTS
    /\ Len(projectedCoords) = MAX_POINTS
    /\ projectedCoords[MAX_POINTS].ticker # bufPrev.companies[MAX_POINTS].ticker
    /\ pointCount = MAX_POINTS

\* C19: after a rebuild an entity whose projection gives no value has no
\* slot, is in neither index map and not in the projected coordinates, and
\* every other entity with a location is placed at its projection (as far
\* as the slots reach).
C19_UnprojectableSkipped ==
    bufPrev.op = "updatePoints"
    => /\ \A k \in 1..Len(bufPrev.companies) :
            LET c == bufPrev.companies[k]
            IN  (HasLocation(c) /\ Projection(c.longitude, c.latitude) = NoPos)
                => /\ \A i \in 1..Len(projectedCoords) :
                         projectedCoords[i].ticker # c.ticker
                   /\ c.ticker \notin DOMAIN tickerToIndex
                   /\ \A i \in DOMAIN indexToTicker :
                         indexToTicker[i] # c.ticker
       /\ LET placeable == Placeable
          IN  \A k \in 1..Len(placeable) :
                k <= MAX_POINTS
                => /\ placeable[k].ticker \in DOMAIN tickerToIndex
                   /\ LET i == tickerToIndex[placeable[k].ticker]
                      IN  /\ indexToTicker[i] = placeable[k].ticker
                          /\ projectedCoords[i + 1].ticker = placeable[k].ticker
                          /\ << projectedCoords[i + 1].x,
                                projectedCoords[i + 1].z >>
                               = Projection(placeable[k].longitude,
                                            placeable[k].latitude)

\* a rebuild from a snapshot in which an entity without a projection stands
\* between entities that were placed
C19_Witness ==
    /\ bufPrev.op = "updatePoints"
    /\ \E k \in 2..(Len(bufPrev.companies) - 1) :
          /\ HasLocation(bufPrev.companies[k])
          /\ Projection(bufPrev.companies[k].longitude,
                        bufPrev.companies[k].latitude) = NoPos
          /\ bufPrev.companies[1].ticker \in DOMAIN tickerToIndex
          /\ bufPrev.companies[Len(bufPrev.companies)].ticker
                \in DOMAIN tickerToIndex
          /\ bufPrev.companies[k].ticker \notin DOMAIN tickerToIndex

\* C20: a call of selectInRectangle, selectInCircle or selectInPolygon made
\* while the manager has no proxy (the worker failed to initialise, or the
\* manager was disposed) has resolved to the empty list; a call whose
\* worker call failed has resolved to the empty list; no call is rejected.
C20_UnavailableWorkerYieldsEmpty ==
    \A i \in 1..Len(managerCalls) :
        /\ managerCalls[i].status # "rejected"
        /\ (~managerCalls[i].available \/ managerCalls[i].failed)
           => /\ managerCalls[i].status = "resolved"
              /\ managerCalls[i].result = << >>

\* a call answered with a result, then dispose, then a call of the same
\* request that resolved to the empty list
C20_Witness ==
    /\ Len(managerCalls) = 2
    /\ managerCalls[1].available
    /\ managerCalls[1].status = "resolved"
    /\ managerCalls[1].result # << >>
    /\ ~managerCalls[2].available
    /\ managerCalls[2].request = managerCalls[1].request
    /\ managerCalls[2].status = "resolved"
    /\ managerCalls[2].result = << >>
    /\ ~spatialAPI

\* C21: a mode change requested while a gesture is being captured, or while
\* a selection query is outstanding, leaves map.selectionMode as it was.
C21_ModeFixedUntilIdle ==
    [][ (gesture.isSelecting \/ isSelecting)
        => selectionMode' = selectionMode ]_vars

\* C22: drag-pan and selection capture are mutually exclusive: isDragging
\* and the listener's isSelecting are never both set.
C22_DragAndCaptureExclusive == ~(isDragging /\ gesture.isSelecting)

\* no capture, no drag-pan and no query in progress, and the listeners are
\* those of the current mode
GestureIdle ==
    /\ ~gesture.isSelecting
    /\ ~isDragging
    /\ ~isSelecting
    /\ gesture.selectionMode = selectionMode

\* C23: a gesture start (mouse down or single-finger touch start) received
\* while idle starts a capture and no drag-pan in a mode other than pan, and
\* a drag-pan and no capture in pan mode.
C23_GestureStartFollowsMode ==
    [][ ( /\ gesturePrev'.n # gesturePrev.n
          /\ \/ gesturePrev'.op = "down"
             \/ gesturePrev'.op = "touchstart" /\ gesturePrev'.touches = 1
          /\ GestureIdle )
        => IF selectionMode = "pan"
           THEN isDragging' /\ ~gesture'.isSelecting
           ELSE gesture'.isSelecting /\ ~isDragging' ]_vars

\* C24: while capturing in polygon or lasso mode, a mouse move appends its
\* position, and only it, to the captured vertices.
C24_MoveAppendsVertex ==
    [][ ( /\ gesturePrev'.n # gesturePrev.n
          /\ gesturePrev'.op = "move"
          /\ gesture.isSelecting
          /\ ~isDragging
          /\ gesture.selectionMode \in { "polygon", "lasso" } )
        => gesture'.selectionPoints = Append(gesture.selectionPoints, mousePos')
      ]_vars

\* C25: once a mouse up has been handled, and until the next pointer event,
\* the stored selectionGeometry is null; stated for the mouse ups handled by
\* listeners of another mode than the one the stored geometry, if any, was
\* captured in.
C25_GeometryNullAfterGesture ==
    (gesturePrev.op = "up" /\ selectionGeometry.type # gesturePrev.mode)
        => selectionGeometry = NoGeometry

\* C26: a call of useSelectionHistory's clearHistory leaves the stored
\* selection history empty, whatever it held.
C26_ClearHistoryEmptiesHistory ==
    [][ (histPrev'.n # histPrev.n /\ histPrev'.op = "clearHistory")
        => selectionHistory' = << >> ]_vars

----------------------------------------------------------------------------
(* Claims about the map slice's camera.                                    *)

\* C27: whatever camera the store holds, resetCamera leaves the default
\* camera (position (0,10,0), zoom 1, target (0,0,0)), and running it once
\* more changes nothing.
C27_ResetCameraIsDefaultAndIdempotent ==
    [][ (mapPrev'.n # mapPrev.n /\ mapPrev'.op = "map/resetCamera")
            => /\ mapView'.camera = DefaultCamera
               /\ MapReducer(mapView', [ type |-> "map/resetCamera" ])
                      = mapView' ]_vars

\* resetCamera has run on a camera whose position, zoom and target all
\* differed from the default
C27_Witness ==
    /\ mapPrev.op = "map/resetCamera"
    /\ mapPrev.from.camera.position # DefaultCamera.position
    /\ mapPrev.from.camera.zoom # DefaultCamera.zoom
    /\ mapPrev.from.camera.target # DefaultCamera.target
    /\ mapView.camera = DefaultCamera

----------------------------------------------------------------------------
(* Claims about hovering.                                                  *)

\* C28: right after a pointer-move, hoveredId is the ticker that
\* indexToTicker now gives to the point hit, or null when nothing is hit,
\* also when the buffer was rebuilt from other entities since the move
\* before.
C28_HoveredIdMatchesHit ==
    hoverPrev.fresh
        => hoveredId = IF hoverPrev.hit = -1
                       THEN NULL ELSE indexToTicker[hoverPrev.hit]

----------------------------------------------------------------------------
(* Claims about the greedy colouring.                                      *)

PaletteIndices == 0..(Len(StateColorPalette) - 1)

\* the smallest palette index outside used, 0 when used holds them all
SmallestUnused(used) ==
    IF PaletteIndices \subseteq used THEN 0
    ELSE CHOOSE i \in PaletteIndices \ used :
             \A j \in PaletteIndices \ used : i <= j

\* region a is handled before region b: it has more neighbours, or as many
\* and stands earlier in the list
ColouredBefore(a, b, states) ==
    LET Pos(s) == CHOOSE i \in 1..Len(states) : states[i] = s
    IN  \/ NeighborCount(a) > NeighborCount(b)
        \/ NeighborCount(a) = NeighborCount(b) /\ Pos(a) < Pos(b)

\* C29: assignStateColors handles the regions of its list by non-increasing
\* number of neighbours and gives each the smallest palette index that none
\* of its neighbours handled before it holds (0 when they hold every
\* index); every index assigned lies in 0..palette length - 1.
C29_GreedyInNeighbourOrder ==
    /\ DOMAIN stateColorMap = Range(colorPrev)
    /\ \A s \in Range(colorPrev) :
          /\ stateColorMap[s] \in PaletteIndices
          /\ stateColorMap[s] =
                 SmallestUnused({ stateColorMap[n] :
                     n \in { m \in Range(Neighbors(s)) \cap Range(colorPrev) :
                                 ColouredBefore(m, s, colorPrev) } })
    /\ \A used \in SUBSET PaletteIndices :
          ColorIndexFor(used) = SmallestUnused(used)

\* every region of the adjacency map has been coloured from a list that
\* does not start with the regions of most neighbours, and some region
\* found three indices taken by neighbours handled before it
C29_Witness ==
    /\ colorPrev \in { Rotate(AdjacencyKeys, k) : k \in 0..MaxRotation }
    /\ NeighborCount(colorPrev[1]) < MaxNeighbors
    /\ \E s \in Range(colorPrev) : stateColorMap[s] = 3

----------------------------------------------------------------------------
(* Claims about the geometry of a gesture.                                 *)

\* a mouse-up has just ended a gesture of one of the modes and made a query
GestureSent(modes) ==
    /\ gesturePrev'.n # gesturePrev.n
    /\ gesturePrev'.op = "up"
    /\ gesture.isSelecting
    /\ gesture.selectionMode \in modes
    /\ Len(mutations') = Len(mutations) + 1

\* C30: the rectangle a rect gesture sends has min.x <= max.x and
\* min.y <= max.y, and it is the rectangle of the gesture's two ends taken
\* in either order; so is the circle of a circle gesture.
C30_GeometryIgnoresDragDirection ==
    [][ GestureSent({ "rect", "circle" })
          => LET sent == mutations'[Len(mutations')].geometry
                 start == UnprojectScreenCoords(camera,
                              QInt(gesture.selectionStart[1]),
                              QInt(gesture.selectionStart[2]))
             IN  \E pos \in PointerPositions :
                    LET end == UnprojectScreenCoords(camera, QInt(pos[1]),
                                                     QInt(pos[2]))
                    IN  IF gesture.selectionMode = "rect"
                        THEN /\ sent = GestureRectangle(start, end)
                             /\ sent = GestureRectangle(end, start)
                             /\ QLeq(sent.min.x, sent.max.x)
                             /\ QLeq(sent.min.y, sent.max.y)
                        ELSE /\ sent = GestureCircle(start, end)
                             /\ sent = GestureCircle(end, start) ]_vars

----------------------------------------------------------------------------
(* Claims about the worker's results as lists.                             *)

\* r is s with some of its elements left out
IsSubList(r, s) ==
    \E f \in [ 1..Len(r) -> 1..Len(s) ] :
        /\ \A i \in 1..Len(r) : r[i] = s[f[i]]
        /\ \A i \in 1..Len(r) : \A j \in 1..Len(r) : i < j => f[i] < f[j]

\* C31: what selectInRectangle, selectInCircle and selectInPolygon return is
\* a sub-list of allCoords: supplied points only, none more often than
\* supplied, in the order of the input.
C31_ResultIsSubList ==
    geomCall.fn # "none" => IsSubList(geomCall.result, geomCall.allCoords)

\* a rectangle query over two points at different places has returned both
C31_Witness ==
    /\ geomCall.fn = "selectInRectangle"
    /\ Len(geomCall.result) = 2
    /\ geomCall.result[1].ticker = "A"
    /\ geomCall.result[1].x # geomCall.result[2].x

----------------------------------------------------------------------------
(* Claims about removing entries of the selection history.                 *)

\* C32: removeFromSelectionHistory(id) takes out every entry with that id
\* and no other: the entries left are those with another id, in their
\* order; the selected set, the stats and isSelecting stay as they were,
\* and an id no entry has leaves the state as it was.
C32_RemoveTakesOutExactlyTheId ==
    [][ (histPrev'.n # histPrev.n
            /\ histPrev'.op = "removeFromSelectionHistory")
          => LET id == histPrev'.action.payload
                 kept == { i \in 1..Len(selectionHistory) :
                             selectionHistory[i].id # id }
             IN  /\ Len(selectionHistory') = Cardinality(kept)
                 /\ \A i \in kept :
                       selectionHistory'[Cardinality({ k \in kept : k <= i })]
                           = selectionHistory[i]
                 /\ selectedCompanies' = selectedCompanies
                 /\ selectionStats' = selectionStats
                 /\ isSelecting' = isSelecting
                 /\ (Cardinality(kept) = Len(selectionHistory)
                        => selectionHistory' = selectionHistory) ]_vars

\* a removal has taken out several entries of one id and left entries of
\* another id
C32_Witness ==
    /\ histPrev.op = "removeFromSelectionHistory"
    /\ histPrev.entries >= Len(selectionHistory) + 2
    /\ selectionHistory # << >>
    /\ selectedCompanies # { }
    /\ isSelecting

----------------------------------------------------------------------------
(* Claims about the websocket middleware.                                  *)

\* C33: when a connection that had opened is closed, the middleware
\* schedules a reconnection attempt; it makes at most maxReconnectAttempts
\* attempts in a row before it gives up with the alert.
C33_CloseAfterOpenSchedulesReconnect ==
    [][ (socketPrev'.n # socketPrev.n /\ socketPrev'.op = "close"
            /\ socketPrev'.wasOpen)
          => /\ socket'.timers = socket.timers + 1
             /\ socket'.reconnectAttempts <= maxReconnectAttempts ]_vars

(***************************************************************************)
(* Claims about the service worker.                                        *)
(***************************************************************************)
ListedUnder(name, pathname) ==
    SomePattern(API_CACHE_STRATEGIES[name], pathname)

\* C34: an API GET request is handled by the strategy under which its path
\* prefix is listed: by staleWhileRevalidate when the path starts with a
\* STALE_WHILE_REVALIDATE pattern, by cacheFirst when it starts with a
\* CACHE_FIRST pattern, by networkFirst when it starts with a NETWORK_FIRST
\* pattern, and by networkFirst when it starts with no pattern at all.
C34_HandledByListedStrategy ==
    swCall.strategy # "none" =>
        /\ ListedUnder("STALE_WHILE_REVALIDATE", swCall.path)
              => swCall.handler = "staleWhileRevalidate"
        /\ ListedUnder("CACHE_FIRST", swCall.path)
              => swCall.handler = "cacheFirst"
        /\ ListedUnder("NETWORK_FIRST", swCall.path)
              => swCall.handler = "networkFirst"
        /\ (\A i \in 1..Len(StrategyNames) :
                ~ListedUnder(StrategyNames[i], swCall.path))
              => swCall.handler = "networkFirst"

(***************************************************************************)
(* Claims about the polygon test.                                          *)
(***************************************************************************)
\* C35: isPointInPolygon never divides by zero: whatever the polygon
\* (horizontal edges and repeated vertices included) and the point, the
\* quotient by (yj - yi) is evaluated only for edges with yi # yj.
C35_NoDivisionByZero ==
    geomCall.fn = "selectInPolygon" => 0 \notin geomCall.divisors

\* A triangle with a repeated vertex, hence with an edge of length 0 and
\* with horizontal edges, tested against a point at a height between its
\* vertices: the quotient has been evaluated.
C35_Witness ==
    /\ geomCall.fn = "selectInPolygon"
    /\ Len(geomCall.polygonPoints) = 3
    /\ geomCall.polygonPoints[1] = geomCall.polygonPoints[2]
    /\ geomCall.polygonPoints[3].y # geomCall.polygonPoints[1].y
    /\ geomCall.divisors # { }
    /\ \E i \in 1..Len(geomCall.allCoords) : geomCall.allCoords[i].z = 1

\* C36: the result of selectInPolygon depends only on the polygon as a
\* closed ring: for every point list and every polygon of at least 3
\* vertices, the vertex list rotated cyclically, or written in the reverse
\* order, selects the same points.
C36_RingOrderDoesNotMatter ==
    (geomCall.fn = "selectInPolygon" /\ Len(geomCall.polygonPoints) >= 3) =>
        /\ \A k \in 1..(Len(geomCall.polygonPoints) - 1) :
              SelectInPolygonDouble(Rotate(geomCall.polygonPoints, k),
                                    geomCall.allCoords) = geomCall.result
        /\ SelectInPolygonDouble(Reverse(geomCall.polygonPoints),
                                 geomCall.allCoords) = geomCall.result

(***************************************************************************)
(* Claims about isSelecting.                                               *)
(***************************************************************************)
Unsettled == { i \in 1..Len(mutations) : mutations[i].status # "settled" }

\* C37: isSelecting is true in every state in which at least one selection
\* query has been dispatched and has not settled yet, also when several
\* queries overlap; and it is false once every dispatched query has
\* settled.
C37_IsSelectingWhileUnsettled ==
    /\ Unsettled # { } => isSelecting
    /\ (mutations # << >> /\ Unsettled = { }) => ~isSelecting
----------------------------------------------------------------------------
(* Claims about the index maps of the point buffer.                        *)

\* C38: after every rebuild of the point buffer, indexToTicker and
\* tickerToIndex are inverse bijections over the indices 0..pointCount-1,
\* and projectedCoords[i].ticker is indexToTicker(i) for every slot i
C38_IndexMapsInverse ==
    bufPrev.op = "updatePoints" =>
        /\ DOMAIN indexToTicker = 0..(pointCount - 1)
        /\ DOMAIN tickerToIndex = { indexToTicker[i] : i \in 0..(pointCount - 1) }
        /\ \A i \in 0..(pointCount - 1) :
              tickerToIndex[indexToTicker[i]] = i
        /\ \A t \in DOMAIN tickerToIndex :
              /\ tickerToIndex[t] \in 0..(pointCount - 1)
              /\ indexToTicker[tickerToIndex[t]] = t
        /\ Len(projectedCoords) = pointCount
        /\ \A i \in 0..(pointCount - 1) :
              projectedCoords[i + 1].ticker = indexToTicker[i]

\* a rebuild from more entities than the buffer has slots, some of them
\* without a projection or without a location, that filled every slot
C38_Witness ==
    /\ bufPrev.op = "updatePoints"
    /\ bufPrev.companies = companies
    /\ Len(companies) > MAX_POINTS
    /\ pointCount = MAX_POINTS
    /\ \E i \in 1..MAX_POINTS :
          /\ HasLocation(companies[i])
          /\ Projection(companies[i].longitude, companies[i].latitude) = NoPos
    /\ \E i \in 1..MAX_POINTS : ~HasLocation(companies[i])
    /\ indexToTicker[MAX_POINTS - 1] = projectedCoords[MAX_POINTS].ticker

----------------------------------------------------------------------------
(* Claims about the adjacency map.                                         *)

\* the regions stateAdjacency lists for a name; none for a name that is
\* not a key
Listed(a) == { Neighbors(a)[k] : k \in 1..Len(Neighbors(a)) }

\* C39: stateAdjacency is a symmetric, irreflexive relation over its own
\* keys: whenever region A lists B, B is a key and lists A, and no region
\* lists itself; A ranges over the keys and over every name coloured so far
C39_AdjacencySymmetricIrreflexive ==
    \A a \in DOMAIN StateAdjacency \cup DOMAIN stateColorMap :
        /\ a \notin Listed(a)
        /\ \A b \in Listed(a) :
              /\ b \in DOMAIN StateAdjacency
              /\ a \in Listed(b)

\* assignStateColors has gone through every key of the map, reading the
\* neighbours of Alabama, which lists Florida, and of Florida
C39_Witness ==
    /\ Len(colorPrev) >= Len(AdjacencyKeys)
    /\ DOMAIN StateAdjacency \subseteq DOMAIN stateColorMap
    /\ "Florida" \in Listed("Alabama")
    /\ "Alabama" \in Listed("Florida")
    /\ stateColorMap["Alabama"] # stateColorMap["Florida"]

----------------------------------------------------------------------------
(* Claims about the alerts list.                                           *)

\* C40: after any sequence of addAlert, updateConnectionQuality,
\* updateSystemStatus, removeAlert, clearAlerts and markAlertAsRead the
\* alerts list holds at most 100 entries
C40_AlertsAtMostHundred == Len(realtime.alerts) <= MAX_ALERTS

====
